---- MODULE Spec2Model ----
(***************************************************************************)
(* A model of the dispatch and workflow engine of AI_chat:                 *)
(*   - plugins/queue_manager.py   per-chat message queue and model (LLM)   *)
(*                                queue, one consumer task each            *)
(*   - plugins/task_manager.py    workflows A, B, C and the tool loop      *)
(*   - plugins/rules_manager.py   routing of a workflow-B result           *)
(*   - plugins/session_manager.py the session store                        *)
(*   - plugins/context_manager.py the per-chat context store               *)
(*   - plugins/port_manager.py    the model adapters and their slots       *)
(*   - plugins/essentials_manager.py the commands of the chat              *)
(*   - Agent_core.py              the callbacks that wire them, and stop   *)
(*                                                                         *)
(* Everything runs on one asyncio event loop: a coroutine runs without     *)
(* interruption from one suspension point to the next, so one action of    *)
(* the model is the code between two suspension points.  An `await` of a   *)
(* coroutine that does not itself suspend (an uncontended asyncio.Lock,    *)
(* a helper coroutine without I/O) is no suspension point.                 *)
(*                                                                         *)
(* The specifications of the module share its variables:                   *)
(*   Spec        the queues, their consumers, the workflows and sessions   *)
(*   SpecLive    Spec under a fair event loop                              *)
(*   SpecStop    Spec with AgentCore.stop and QueueManager.shutdown        *)
(*   SpecTool    the tool loop of one workflow C                           *)
(*   SpecRace    two workflows C that carry the same session               *)
(*   SpecPort    PortManager.send_to_model_async                           *)
(*   SpecCtx     the context store of one chat                             *)
(*   SpecCtxStop SpecCtx with ContextManager.shutdown                      *)
(*   SpecPrompt  the custom prompt of one chat's system message            *)
(*   SpecModel   update_model on one chat next to the cleanup daemon       *)
(*   SpecCommand one message through workflow A or B and the commands      *)
(*   SpecTurn    the turns of one chat: message, model call, write-back    *)
(*   SpecEnqueue Spec with every payload a frontend may hand to the queue  *)
(*   SpecResult  the message callback on the results of the workflows      *)
(*   SpecSession the session of one workflow B and C, built from a context *)
(*   SpecArgs    the arguments of a tool call on their way to the handler  *)
(*   SpecWrite   update_model while writes of the chat's file can fail     *)
(*   SpecLoad    the two queues of one chat under more traffic than fits   *)
(*   SpecMonitor the health monitor tasks of the client adapters           *)
(***************************************************************************)
EXTENDS Integers, Sequences, FiniteSets, TLC

(***************************************************************************)
(* Bounds of the model.                                                    *)
(***************************************************************************)
\* asyncio.Queue(maxsize=1000) in the code; the model's queues are smaller.
QueueMaxSize == 2
\* Frontend messages that arrive in one behaviour (all chats together).
MaxArrivals == 3

\* Tool calls that one model response may request.
MaxBatchSize == 2
\* max_user_messages_per_chat of the configuration (20 by default).
MaxUserMessages == 2
\* Calls of update_context, of the commands that touch a context, and
\* rounds of the cleanup daemon in one behaviour of SpecCtx.
MaxUpdates == 4
MaxCommands == 1
MaxEvictions == 1
\* Answers of the model backend in one behaviour of SpecRace.
MaxRaceModelCalls == 4
\* max_concurrent_requests of an adapter's configuration (10 by default).
MaxConcurrentRequests == 1

Chats == {"c1", "c2"}

\* TaskManager.max_tool_calls
MaxToolCalls == 10

VARIABLES
    \* ---- plugins/queue_manager.py ----
    is_running,        \* QueueManager.is_running
    message_queues,    \* chat -> queue object (0: no entry)
    llm_queues,        \* chat -> queue object (0: no entry)
    queues,            \* queue object -> its items, oldest first
    next_queue,        \* the next queue object to allocate
    message_consumers, \* chat -> number of message consumer tasks created
    llm_consumers,     \* chat -> number of model consumer tasks created
    mcons,             \* chat -> state of the message consumer task
    lcons,             \* chat -> state of the model consumer task
    putters,           \* frontend enqueue_message calls suspended in put()
    \* ---- plugins/session_manager.py ----
    sessions,          \* SessionManager.sessions (the ids)
    session_counter,   \* SessionManager.session_counter
    session_lock,      \* the task that waits while it holds SessionManager.lock
    \* ---- Agent_core.py ----
    stop_pc,           \* where AgentCore.stop is
    \* ---- plugins/context_manager.py, as the workflows leave it ----
    dirty_chats,       \* the chats whose cached context is dirty
    \* ---- plugins/rules_manager.py ----
    config_mode,       \* system.rules_manager.mode of the configuration
    parallel_mode,     \* RulesManager.parallel_mode
    \* ---- observations ----
    arrivals,          \* frontend messages received so far
    put_count,         \* queue object -> items ever put into it
    got_count,         \* queue object -> items ever taken by a consumer
    done_count,        \* queue object -> items whose processing has ended
    b_count,           \* chat -> successful workflow-B results so far
    last_enqueue,      \* what the last enqueue_message call did
    c_returned         \* sessions whose workflow C found them and returned

VARIABLES
    \* ---- plugins/task_manager.py: the workflows C of one session ----
    has_execute_tool,  \* whether the tool manager has an execute_tool method
    tpc,               \* workflow -> where it is
    call_count,        \* workflow -> call_count of _process_tool_calls
    current_response,  \* workflow -> current_response of _process_tool_calls
    pending,           \* workflow -> tool calls of the batch not yet executed
    tool_results,      \* workflow -> len(tool_results) of the batch
    final_response,    \* workflow -> what _process_tool_calls returned
    \* ---- plugins/session_manager.py: the session they carry ----
    session_exists,    \* session_id in SessionManager.sessions
    session_messages,  \* the messages appended to data["messages"]
    tool_call_count,   \* SessionData.tool_call_count
    \* ---- observations ----
    model_calls,       \* workflow -> calls of _call_model_service so far
    batches,           \* workflow -> tool batches started so far
    last_batch         \* workflow -> what its last batch asked for and got

tvars == <<has_execute_tool, tpc, call_count, current_response, pending,
           tool_results, final_response, session_exists, session_messages,
           tool_call_count, model_calls, batches, last_batch>>

VARIABLES
    \* ---- plugins/context_manager.py: the context of one chat ----
    virtual_reply_enabled, \* ContextManager.virtual_reply_enabled
    context_cache,     \* the messages of context_cache[chat_id]
    cache_status,      \* whether the chat is cached, and its is_dirty flag
    file,              \* the chat's history file
    lock,              \* the task that holds ContextManager.lock
    cpc,               \* task -> where it is in its context operation
    op,                \* the operation of the message consumer
    trim,              \* the loop variables of _trim_context_messages
    dumps,             \* task -> the json.dump it runs in an executor thread
    \* ---- observations ----
    next_id,           \* the number of the next message
    updates,           \* update_context calls so far
    commands,          \* context commands so far
    evictions,         \* rounds of the cleanup daemon so far
    last_update        \* the context before and after the last update

cvars == <<virtual_reply_enabled, context_cache, cache_status, file, lock,
           cpc, op, trim, dumps, next_id, updates, commands, evictions,
           last_update>>

VARIABLES
    \* ---- plugins/port_manager.py: the model adapters ----
    is_connected,        \* adapter -> ModelConnection.is_connected
    concurrent_requests, \* adapter -> ModelConnection.concurrent_requests
    rpc,                 \* request -> where its send_to_model_async call is
    selected_model,      \* request -> selected_model of its call
    \* ---- observations ----
    returned             \* request -> how its last call ended

pvars == <<is_connected, concurrent_requests, rpc, selected_model, returned>>

VARIABLES
    \* ---- the system message of one chat's context (context_manager.py) ----
    core_prompt,         \* ContextManager.core_prompt
    system_content,      \* content of the context's system message
    \* ---- observations ----
    last_prompt_op,      \* the last prompt mutator called and its argument
    prompt_result        \* what the last get_custom_prompt returned

promptvars == <<core_prompt, system_content, last_prompt_op, prompt_result>>

VARIABLES
    \* ---- the model of one chat's context (context_manager.py) ----
    model_cache,         \* context_cache / cache_status entry of the chat
    model_file,          \* the chat's context file
    model_dumps,         \* task -> its json.dump of the context, if any
    model_pc,            \* task -> where it is in update_model / the daemon
    model_name,          \* argument of the update_model call
    evicted,             \* rounds of the cleanup daemon so far
    model_calls_made,    \* calls of update_model so far
    \* ---- observations ----
    model_set,           \* the model of the last update_model that returned
    model_got,           \* the model get_context reported since then
    model_first,         \* cache and file when that update_model returned
    model_repeat         \* cache and file around a repeated update_model

modelvars == <<model_cache, model_file, model_dumps, model_pc, model_name,
               evicted, model_calls_made, model_set, model_got, model_first,
               model_repeat>>

VARIABLES
    \* ---- plugins/essentials_manager.py and the workflows that call it ----
    admin_chats,         \* EssentialsManager.admin_chats
    \* ---- observations of the last message a workflow handled ----
    wf_message,          \* the workflow, the chat and the text of the message
    wf_result,           \* what the workflow returned
    handler_run,         \* the command handler that was executed, if any
    context_update,      \* how the call of update_context ended, if made
    session_created,     \* create_session gave a session
    sent_to_frontend,    \* _handle_result sent the response of the result
    sent_to_rules        \* _handle_result passed the result on for a model call

cmdvars == <<admin_chats, wf_message, wf_result, handler_run, context_update,
             session_created, sent_to_frontend, sent_to_rules>>

VARIABLES
    \* ---- one chat's turns: queues, context and frontend ----
    turn_virtual,        \* ContextManager.virtual_reply_enabled
    turn_queue,          \* the tasks in the chat's message queue
    turn_llm,            \* the tasks in the chat's model queue
    turn_model,          \* the message whose model call is in flight, or 0
    turn_context,        \* the messages appended to the chat's context
    turn_frontend,       \* the messages whose reply the frontend received
    turn_arrived,        \* the frontend messages enqueued so far
    \* ---- observations ----
    turn_done            \* the last reply written back, and the context then

turnvars == <<turn_virtual, turn_queue, turn_llm, turn_model, turn_context,
              turn_frontend, turn_arrived, turn_done>>

VARIABLES
    \* ---- Agent_core.py: the result callback of the consumers ----
    core_running,        \* AgentCore.is_running
    \* ---- observations ----
    handled              \* the results handed to _handle_message_result

resultvars == <<core_running, handled>>

VARIABLES
    \* ---- one chat's context and the session built from it ----
    sb_config,           \* the configuration of the two managers
    sb_tools_call,       \* context["tools_call"]
    sb_context,          \* context["data"]["messages"]
    sb_session,          \* the chat's latest session, if any
    \* ---- observations ----
    sb_written,          \* the messages the context store itself has written
    sb_steps             \* operations on the chat so far

sbvars == <<sb_config, sb_tools_call, sb_context, sb_session, sb_written, sb_steps>>

VARIABLES
    \* ---- the tool calls of the tool loop (task_manager.py, tool_manager.py) ----
    arg_has_execute_tool, \* whether the tool manager has an execute_tool method
    \* ---- observations ----
    arg_calls             \* the tool calls made so far and what each led to

argvars == <<arg_has_execute_tool, arg_calls>>

VARIABLES
    \* ---- a mutator of the context store under failing writes ----
    write_cache,          \* the chat's entry of context_cache and cache_status
    write_file,           \* the chat's file
    \* ---- observations ----
    write_last,           \* the last call: what it was, what it returned,
                          \* and whether a write of it failed
    write_calls           \* the calls made so far

writevars == <<write_cache, write_file, write_last, write_calls>>

VARIABLES
    \* ---- the health monitors of the client adapters ----
    mon_connected,        \* adapter -> connection.is_connected
    mon_link,             \* adapter -> whether its module has its link
    mon_tasks,            \* adapter -> the monitor tasks created for it so
                          \* far, by number
    \* ---- observations ----
    mon_disconnects       \* adapter -> how often its link was lost so far

monvars == <<mon_connected, mon_link, mon_tasks, mon_disconnects>>

VARIABLES
    \* ---- the two queues of one chat under load ----
    load_message_queue,   \* message_queues[chat]: workflow types, oldest first
    load_llm_queue,       \* llm_queues[chat]: workflow types, oldest first
    load_mcons,           \* the message consumer: "get", "exec" or "put"
    load_lcons,           \* the model consumer: "get", "model" or "put"
    load_putters,         \* the enqueue_message calls of the frontend that
                          \* are suspended in put(): their workflow types
    \* ---- observations ----
    load_arrivals         \* frontend messages so far

loadvars == <<load_message_queue, load_llm_queue, load_mcons, load_lcons,
              load_putters, load_arrivals>>

yvars == <<writevars, monvars, loadvars>>

xvars == <<resultvars, sbvars, argvars, yvars>>

evars == <<promptvars, modelvars, cmdvars, turnvars, xvars>>

qvars == <<is_running, message_queues, llm_queues, queues, next_queue,
           message_consumers, llm_consumers, mcons, lcons, putters,
           sessions, session_counter, session_lock, stop_pc, dirty_chats, config_mode,
           parallel_mode, arrivals, put_count, got_count, done_count, b_count, last_enqueue,
           c_returned>>

vars == <<qvars, tvars, cvars, pvars, evars>>

(***************************************************************************)
(* Queue tasks (QueueTask) and consumer tasks.                             *)
(***************************************************************************)
\* The queue objects: one message queue and one model queue per chat, and
\* room for one more, should a queue ever be created twice.
QueueObjs == 1 .. (2 * Cardinality(Chats) + 1)

\* seq: the position at which put() stored the task in its queue (1, 2, ..)
\* wf: workflow_type; sid: the session a workflow-C task carries;
\* bseq: the position of the workflow-B result that made a workflow-C task.
NoTask == [seq |-> 0, wf |-> "-", sid |-> 0, bseq |-> 0]

\* pc "new": created by asyncio.create_task, not yet run;
\* "idle": waiting in queue.get(); "exec": the task callback is running;
\* "model": workflow C waits for the model backend;
\* "put": the message callback is suspended in put() on a full queue.
NoConsumer == [pc |-> "none", queue |-> 0, cur |-> NoTask, out |-> NoTask]

\* _determine_workflow_type
DetermineWorkflowType(is_respond) == IF is_respond THEN "B" ELSE "A"

Full(q) == Len(queues[q]) >= QueueMaxSize

(***************************************************************************)
(* The context store (plugins/context_manager.py), for one chat.           *)
(*                                                                         *)
(* Two tasks of the event loop touch the chat's context: "m", the chat's   *)
(* message consumer (update_context, and the commands that set or delete   *)
(* the custom prompt, clear the context or read it), and "d", the cleanup  *)
(* daemon.  _save_context_to_file hands json.dump of the cached object to  *)
(* an executor thread; that thread runs in parallel with the event loop,   *)
(* message by message, and reads the list the event loop appends to and    *)
(* trims.                                                                  *)
(***************************************************************************)
Tasks == {"m", "d", "s"}

\* A message: its role, its number, and for a system message whether its
\* content carries a custom prompt in front of the core prompt.
Msg(role, id) == [role |-> role, id |-> id, custom |-> FALSE]

NoOp == [kind |-> "-", entry |-> Msg("-", 0)]
NoTrim == [i |-> 0, removed_count |-> 0, messages_to_remove |-> 0]
NoFile == [kind |-> "absent", messages |-> <<>>]
NoDump == [state |-> "off", live |-> FALSE, src |-> <<>>, pos |-> 0,
           out |-> <<>>, lost |-> FALSE]
NoUpdate == [pre |-> <<>>, entry |-> Msg("-", 0), post |-> <<>>, done |-> FALSE]
NotCached == [cached |-> FALSE, is_dirty |-> FALSE]

\* The states of "m" in which it runs without a suspension point: the
\* event loop runs nothing else, only the executor threads go on.
Micro == {"append", "virtual", "trim", "mark"}
EventLoopFree == cpc["m"] \notin Micro

\* _ensure_default_context lines 203-232.
EnsureDefaultContext == <<Msg("system", 0)>>

\* _count_user_messages / _trim_context_messages lines 349-353.
UserCount(messages) ==
    Cardinality({i \in 1 .. Len(messages) : messages[i].role = "user"})

\* del messages[a:b], with 1-based a and exclusive b.
DeleteRange(messages, a, b) ==
    SubSeq(messages, 1, a - 1) \o SubSeq(messages, b, Len(messages))

\* _trim_context_messages lines 383-385: the end (exclusive) of the round
\* that starts at the user message i.
RoundEnd(messages, i) ==
    CHOOSE e \in (i + 1) .. (Len(messages) + 1) :
        /\ \A k \in (i + 1) .. (e - 1) : messages[k].role = "assistant"
        /\ e = Len(messages) + 1 \/ messages[e].role # "assistant"

\* _trim_context_messages lines 372-374: the messages the loop steps over.
\* (TrimSkipsNothing is the variant without that test; C7 is compared
\* against it.)
TrimSkipsNothing(role) == FALSE
TrimSkips(role) == role = "system"

\* _trim_context_messages line 368: the loop condition.
TrimLoopCondition(messages, tr) ==
    /\ tr.i <= Len(messages)
    /\ tr.removed_count < tr.messages_to_remove

\* _trim_context_messages lines 369-414: one iteration of the loop.
TrimIteration(messages, tr) ==
    LET role == messages[tr.i].role IN
    IF TrimSkips(role)
    THEN [messages |-> messages, trim |-> [tr EXCEPT !.i = @ + 1]]
    ELSE IF role = "user"
    THEN [messages |-> DeleteRange(messages, tr.i, RoundEnd(messages, tr.i)),
          trim |-> [tr EXCEPT !.removed_count = @ + 1]]
    ELSE [messages |-> DeleteRange(messages, tr.i, tr.i + 1), trim |-> tr]

\* _load_context_from_file lines 131-149: the messages of the file, or
\* <<>> for None (no file, or a file that does not parse).
LoadContextFromFile(f) == IF f.kind = "json" THEN f.messages ELSE <<>>

\* update_custom_prompt lines 688-717 / delete_custom_prompt lines 764-787:
\* the first system message gets the new content; without a system message
\* one is inserted in front.
SystemIndex(messages) ==
    IF \E i \in 1 .. Len(messages) : messages[i].role = "system"
    THEN CHOOSE i \in 1 .. Len(messages) :
            /\ messages[i].role = "system"
            /\ \A j \in 1 .. (i - 1) : messages[j].role # "system"
    ELSE 0
EditPrompt(messages, kind) ==
    LET with_system == IF SystemIndex(messages) = 0
                       THEN <<Msg("system", 0)>> \o messages
                       ELSE messages
    IN [with_system EXCEPT ![SystemIndex(with_system)].custom = (kind = "set")]

\* _save_context_to_file line 170: open(file_path, 'w') truncates the file
\* and json.dump of the cached object starts in an executor thread.
StartDump(ds, t) ==
    [ds EXCEPT ![t] = [NoDump EXCEPT !.state = "run", !.live = TRUE]]
Truncated == [kind |-> "partial", messages |-> <<>>]

\* The dumps that read the cached object keep reading that object when the
\* cache drops it or replaces it.
Detach(ds) ==
    [t \in Tasks |-> IF ds[t].live
                     THEN [ds[t] EXCEPT !.live = FALSE, !.src = context_cache]
                     ELSE ds[t]]

\* The file after the dump of task t is closed (the end of the with block,
\* line 170-174).  A file unlinked since it was opened stays absent.  When
\* another dump, open at the same time, was closed first, this one writes
\* over it from the start: a shorter text leaves the tail of the longer one
\* behind it, and the file does not parse.
CloseFile(t) ==
    IF dumps[t].lost THEN file
    ELSE IF file.kind = "json" /\ Len(dumps[t].out) < Len(file.messages)
    THEN Truncated
    ELSE [kind |-> "json", messages |-> dumps[t].out]

\* The context store at rest, for the specifications that do not run it.
CParked ==
    /\ virtual_reply_enabled = TRUE
    /\ context_cache = <<>>
    /\ cache_status = NotCached
    /\ file = NoFile
    /\ lock = "-"
    /\ cpc = [t \in Tasks |-> "off"]
    /\ op = NoOp
    /\ trim = NoTrim
    /\ dumps = [t \in Tasks |-> NoDump]
    /\ next_id = 1
    /\ updates = 0
    /\ commands = 0
    /\ evictions = 0
    /\ last_update = NoUpdate

(***************************************************************************)
(* QueueManager: enqueue_message, enqueue_llm and the consumers.           *)
(***************************************************************************)
\* enqueue_message line 113 / enqueue_llm line 158: "if chat_id not in ..."
\* (NeedsMessageQueueWhenDrained is the variant that also replaces a queue
\* found empty; C2 is compared against it.)
NeedsMessageQueueWhenDrained(c) ==
    message_queues[c] = 0 \/ queues[message_queues[c]] = <<>>
NeedsMessageQueue(c) == message_queues[c] = 0
NeedsLlmQueue(c) == llm_queues[c] = 0

\* _start_message_consumer line 200 / _start_llm_consumer line 209: the
\* early return when the chat already has a consumer task.
StartsMessageConsumer(c) == message_consumers[c] = 0
StartsLlmConsumer(c) == llm_consumers[c] = 0

\* The queue object that enqueue_message / enqueue_llm puts into.
MessageQueueAfter(c) ==
    IF NeedsMessageQueue(c) THEN next_queue ELSE message_queues[c]
LlmQueueAfter(c) ==
    IF NeedsLlmQueue(c) THEN next_queue ELSE llm_queues[c]

\* enqueue_message lines 112-115 with _start_message_consumer: the queue
\* and its consumer are created when the chat has no queue yet.
EnsureMessageQueue(c) ==
    IF NeedsMessageQueue(c)
    THEN /\ next_queue \in QueueObjs
         /\ message_queues' = [message_queues EXCEPT ![c] = next_queue]
         /\ next_queue' = next_queue + 1
         /\ IF StartsMessageConsumer(c)
            THEN /\ message_consumers' = [message_consumers EXCEPT ![c] = @ + 1]
                 /\ mcons' = [mcons EXCEPT ![c] = [NoConsumer EXCEPT !.pc = "new"]]
            ELSE UNCHANGED <<message_consumers, mcons>>
    ELSE UNCHANGED <<message_queues, next_queue, message_consumers, mcons>>

\* enqueue_llm lines 157-160 with _start_llm_consumer.
EnsureLlmQueue(c) ==
    IF NeedsLlmQueue(c)
    THEN /\ next_queue \in QueueObjs
         /\ llm_queues' = [llm_queues EXCEPT ![c] = next_queue]
         /\ next_queue' = next_queue + 1
         /\ IF StartsLlmConsumer(c)
            THEN /\ llm_consumers' = [llm_consumers EXCEPT ![c] = @ + 1]
                 /\ lcons' = [lcons EXCEPT ![c] = [NoConsumer EXCEPT !.pc = "new"]]
            ELSE UNCHANGED <<llm_consumers, lcons>>
    ELSE UNCHANGED <<llm_queues, next_queue, llm_consumers, lcons>>

\* asyncio.Queue.put on a queue with room: the item goes to the tail.
Put(q, task) ==
    /\ queues' = [queues EXCEPT ![q] = Append(@, [task EXCEPT !.seq = put_count[q] + 1])]
    /\ put_count' = [put_count EXCEPT ![q] = @ + 1]

\* queue.get() in _message_consumer_loop line 228 / _llm_consumer_loop
\* line 263: the item a consumer receives, and what stays in the queue.
\* (The ...Newest variants hand the newest item over first; C1 and C9 are
\* compared against them.)
MsgDequeueNewest(items) ==
    [task |-> items[Len(items)], rest |-> SubSeq(items, 1, Len(items) - 1)]
MsgDequeue(items) == [task |-> Head(items), rest |-> Tail(items)]
LlmDequeueNewest(items) ==
    [task |-> items[Len(items)], rest |-> SubSeq(items, 1, Len(items) - 1)]
LlmDequeue(items) == [task |-> Head(items), rest |-> Tail(items)]

\* RulesManager.initialize lines 42-46: the configured mode is read and
\* then overwritten.
InitializeMode(configured) == "wait"

\* A response of the model backend: n is the number of the model call that
\* produced it (0: None, the call failed), calls the tool calls it requests.
NoResponse == [n |-> 0, calls |-> 0]

\* The execute_task calls of workflow C that carry one session id.
Workflows == {"w1", "w2"}

\* A tool batch: the calls the response requested, whether one of them was
\* of a tool that takes longer than its timeout, the messages the batch put
\* into the session, and whether the model was called again after it.
NoBatch == [requested |-> 0, slow |-> FALSE, appended |-> <<>>, again |-> FALSE]

\* The tool loop at rest, for the specifications that do not run it.
TParked ==
    /\ has_execute_tool = FALSE
    /\ tpc = [w \in Workflows |-> "off"]
    /\ call_count = [w \in Workflows |-> 0]
    /\ current_response = [w \in Workflows |-> NoResponse]
    /\ pending = [w \in Workflows |-> 0]
    /\ tool_results = [w \in Workflows |-> 0]
    /\ final_response = [w \in Workflows |-> NoResponse]
    /\ session_exists = FALSE
    /\ session_messages = <<>>
    /\ tool_call_count = 0
    /\ model_calls = [w \in Workflows |-> 0]
    /\ batches = [w \in Workflows |-> 0]
    /\ last_batch = [w \in Workflows |-> NoBatch]

\* The adapters, in the order of PortManager.model_connections, and the
\* tasks that call send_to_model_async.
ModelOrder == <<"m1", "m2">>
Models == {ModelOrder[i] : i \in 1 .. Len(ModelOrder)}
Requests == {"r1", "r2", "r3"}

\* Line 495: the adapter can take one more request.
\* (AvailableAtLimit is the variant that admits a request at the limit; C15
\* is compared against it.)
AvailableAtLimit(m) ==
    is_connected[m] /\ concurrent_requests[m] <= MaxConcurrentRequests
Available(m) ==
    is_connected[m] /\ concurrent_requests[m] < MaxConcurrentRequests

\* Lines 494-499: the first adapter of the dictionary that is available,
\* "-" when there is none.
SelectModel ==
    IF \E i \in 1 .. Len(ModelOrder) : Available(ModelOrder[i])
    THEN ModelOrder[CHOOSE i \in 1 .. Len(ModelOrder) :
                        /\ Available(ModelOrder[i])
                        /\ \A j \in 1 .. i - 1 : ~Available(ModelOrder[j])]
    ELSE "-"

\* The port manager at rest, for the specifications that do not run it.
PParked ==
    /\ is_connected = [m \in Models |-> FALSE]
    /\ concurrent_requests = [m \in Models |-> 0]
    /\ rpc = [r \in Requests |-> "off"]
    /\ selected_model = [r \in Requests |-> "-"]
    /\ returned = [r \in Requests |-> "-"]

(***************************************************************************)
(* The custom prompt (plugins/context_manager.py, lines 667-866).  A text   *)
(* is a sequence of characters; "\n" and " " are the white space of the     *)
(* model.                                                                   *)
(***************************************************************************)
\* Letters of the prompts, and the core prompts of the configuration
\* (core_prompt is "你是智能助手" by default, lines 83-85).
Letters == {"a", "k"}
Cores == {<<"k">>, <<"k", "a">>}

NoPromptOp == [kind |-> "-", content |-> <<>>]
NoPromptResult == [custom_prompt |-> <<"-">>, has_custom_prompt |-> FALSE]

IsSpace(ch) == ch \in {" ", "\n"}

\* str.strip(): the text without its leading and trailing white space.
RECURSIVE LStrip(_)
LStrip(s) ==
    IF s # <<>> /\ IsSpace(Head(s)) THEN LStrip(Tail(s)) ELSE s

RECURSIVE RStrip(_)
RStrip(s) ==
    IF s # <<>> /\ IsSpace(s[Len(s)]) THEN RStrip(SubSeq(s, 1, Len(s) - 1)) ELSE s

Strip(s) == LStrip(RStrip(s))

\* `old in s` of Python: old occurs in s as a contiguous piece.
Contains(s, old) ==
    \E i \in 1 .. Len(s) - Len(old) + 1 : SubSeq(s, i, i + Len(old) - 1) = old

\* s.replace(old, ""): every occurrence of old, found from left to right
\* without overlap, is removed.
RECURSIVE Remove(_, _)
Remove(s, old) ==
    IF old = <<>> \/ Len(s) < Len(old) THEN s
    ELSE IF SubSeq(s, 1, Len(old)) = old
         THEN Remove(SubSeq(s, Len(old) + 1, Len(s)), old)
         ELSE <<Head(s)>> \o Remove(Tail(s), old)

\* update_custom_prompt lines 705-712: the content of the system message
\* for a prompt.
FullPrompt(prompt_content, core) ==
    IF Strip(prompt_content) # <<>>
    THEN Strip(prompt_content) \o <<"\n">> \o core
    ELSE core

\* get_custom_prompt lines 835-851: what is read back from the content of
\* the system message.
ExtractCustomPrompt(content, core) ==
    IF content = core
    THEN [custom_prompt |-> <<>>, has_custom_prompt |-> FALSE]
    ELSE IF Contains(content, core)
         THEN [custom_prompt |-> Strip(Remove(content, core)),
               has_custom_prompt |-> Strip(Remove(content, core)) # <<>>]
         ELSE [custom_prompt |-> <<>>, has_custom_prompt |-> FALSE]

\* The system message of a default context (line 218 puts the core prompt
\* in it), for the specifications that do not run the prompt commands.
EStart(core) ==
    /\ core_prompt = core
    /\ system_content = core
    /\ last_prompt_op = NoPromptOp
    /\ prompt_result = NoPromptResult

(***************************************************************************)
(* The model field of a context (plugins/context_manager.py, update_model  *)
(* lines 570-616).  A context is its model and the number of the messages  *)
(* it holds; "m" is the task that runs the command, "d" the cleanup        *)
(* daemon.                                                                 *)
(***************************************************************************)
\* default_model of the configuration and a model a command may choose.
DefaultModel == "local_model"
ModelNames == {"local_model", "m1", "m2"}
ModelTasks == {"m", "d"}

NoModelContext == [cached |-> FALSE, is_dirty |-> FALSE, model |-> "-", n |-> 0]
NoModelFile == [kind |-> "absent", model |-> "-", n |-> 0]
NoModelDump == [state |-> "off", model |-> "-", n |-> 0]
NoSnapshot == [model |-> "-", n |-> 0, file |-> NoModelFile]
NoRepeat == [first |-> NoSnapshot, second |-> NoSnapshot]

\* The variables of update_model at rest, over a given cache and file.
MStart(cache, f) ==
    /\ model_cache = cache
    /\ model_file = f
    /\ model_dumps = [t \in ModelTasks |-> NoModelDump]
    /\ model_pc = [t \in ModelTasks |-> "idle"]
    /\ model_name = "-"
    /\ evicted = 0
    /\ model_calls_made = 0
    /\ model_set = "-"
    /\ model_got = "-"
    /\ model_first = NoSnapshot
    /\ model_repeat = NoRepeat

MParked == MStart(NoModelContext, NoModelFile)

(***************************************************************************)
(* The commands (plugins/essentials_manager.py).  The text of a message is *)
(* a sequence of tokens: the command prefix "#", a blank, or a piece of a  *)
(* word.  A word is a sequence of tokens without a blank, as split() cuts  *)
(* it out.  The tokens "help", "model_query", "reload" and "hot_reload"    *)
(* stand for 帮助, 模型查询, 重载 and 热重载.                              *)
(***************************************************************************)
command_prefix == "#"

\* _check_permission lines 203-210 (of the ten common commands the model
\* has two).
common_commands == {<<"help">>, <<"model_query">>}
admin_commands == {<<"reload">>, <<"hot_reload">>}

\* EssentialsManager.commands, lines 37-50.
command_handlers ==
    [c \in common_commands \cup admin_commands |->
        IF c = <<"help">> THEN "_handle_help"
        ELSE IF c = <<"model_query">> THEN "_handle_model_query"
        ELSE "_handle_reload"]

\* str.split(): the words between the runs of white space.
WordLen(s) ==
    IF \E i \in 1 .. Len(s) : IsSpace(s[i])
    THEN (CHOOSE i \in 1 .. Len(s) :
             IsSpace(s[i]) /\ \A j \in 1 .. i - 1 : ~IsSpace(s[j])) - 1
    ELSE Len(s)

RECURSIVE Split(_)
Split(s) ==
    IF s = <<>> THEN <<>>
    ELSE IF IsSpace(Head(s)) THEN Split(Tail(s))
    ELSE <<SubSeq(s, 1, WordLen(s))>> \o Split(SubSeq(s, WordLen(s) + 1, Len(s)))

\* is_command lines 99-101 (a string content).  IsCommandUnstripped is the
\* variant that looks at the text as it came.
IsCommandUnstripped(text) == text # <<>> /\ Head(text) = command_prefix
IsCommand(text) == Strip(text) # <<>> /\ Head(Strip(text)) = command_prefix

\* _parse_command lines 183-198: the command word and its arguments, or
\* no command.
NoCommand == [command |-> <<>>, args |-> <<>>]
ParseCommand(content) ==
    IF content = <<>> \/ Head(content) # command_prefix THEN NoCommand
    ELSE LET parts == Split(Strip(Tail(content)))
         IN IF parts = <<>> THEN NoCommand
            ELSE [command |-> parts[1], args |-> Tail(parts)]

\* _check_permission lines 200-234.  CheckPermissionOpen is the variant
\* without the test of the admin list.
CheckPermissionOpen(chat_id, command) ==
    IF command = <<>> THEN FALSE
    ELSE command \in common_commands \cup admin_commands
CheckPermission(chat_id, command) ==
    IF command = <<>> THEN FALSE
    ELSE IF command \in common_commands THEN TRUE
    ELSE IF command \in admin_commands THEN chat_id \in admin_chats
    ELSE FALSE

\* execute_command lines 135-161: the handler that is executed ("-" for
\* none) and the response.  The handler's own outcome is the choice ok.
ExecuteCommand(chat_id, content, ok) ==
    LET parsed == ParseCommand(content) IN
    IF parsed = NoCommand
    THEN [handler |-> "-", success |-> FALSE, error |-> "invalid_format"]
    ELSE IF ~CheckPermission(chat_id, parsed.command)
    THEN [handler |-> "-", success |-> FALSE,
          error |-> IF parsed.command \in admin_commands
                    THEN "admin_only" ELSE "denied"]
    ELSE IF parsed.command \notin DOMAIN command_handlers
    THEN [handler |-> "-", success |-> FALSE, error |-> "unknown"]
    ELSE [handler |-> command_handlers[parsed.command], success |-> ok,
          error |-> IF ok THEN "-" ELSE "handler"]

NoMessage == [workflow |-> "-", chat_id |-> "-", text |-> <<>>]
NoCommandResponse == [handler |-> "-", success |-> FALSE, error |-> "no_response"]
NoResult == [workflow_type |-> "-", is_command |-> FALSE, success |-> FALSE,
             response |-> NoCommandResponse]

\* The command layer after initialize, under the configured admin list.
CmdStart(admins) ==
    /\ admin_chats = admins
    /\ wf_message = NoMessage
    /\ wf_result = NoResult
    /\ handler_run = "-"
    /\ context_update = "-"
    /\ session_created = FALSE
    /\ sent_to_frontend = FALSE
    /\ sent_to_rules = FALSE

CmdParked == CmdStart({})

\* One chat's turns at rest.
NoTurn == [id |-> 0, context |-> <<>>]
TurnStart(virtual) ==
    /\ turn_virtual = virtual
    /\ turn_queue = <<>>
    /\ turn_llm = <<>>
    /\ turn_model = 0
    /\ turn_context = <<>>
    /\ turn_frontend = {}
    /\ turn_arrived = 0
    /\ turn_done = NoTurn

TurnParked == TurnStart(TRUE)

\* The agent core running, before any result.
ResultParked == core_running = TRUE /\ handled = <<>>

\* SessionManager.virtual_reply_text when its configuration has no such key
\* (session_manager.py line 166) and the default of the context manager
\* (context_manager.py line 62): the same text.
DefaultVirtualReplyText == "skipped"

NoSbSession ==
    [exists |-> FALSE, shared |-> FALSE, messages |-> <<>>, built |-> <<>>, tools |-> FALSE,
     tools_call |-> FALSE, context |-> <<>>, updates |-> 0, sent |-> FALSE]

\* A chat without messages beyond the system message, under a configuration.
SbStart(config) ==
    /\ sb_config = config
    /\ sb_tools_call = config.default_tools_call
    /\ sb_context = <<[role |-> "system", content |-> <<"core">>]>>
    /\ sb_session = NoSbSession
    /\ sb_written = sb_context
    /\ sb_steps = 0

SbParked ==
    SbStart([virtual_reply_enabled |-> TRUE, virtual_reply_text |-> DefaultVirtualReplyText,
             session_virtual_reply_text |-> DefaultVirtualReplyText,
             default_tools_call |-> TRUE, tool_manager |-> TRUE])

\* No tool call so far, under a tool manager with or without execute_tool.
ArgStart(has_method) == arg_has_execute_tool = has_method /\ arg_calls = <<>>

ArgParked == ArgStart(FALSE)

\* The result of no call.
NoWriteResult == [op |-> "-", success |-> FALSE, write_failed |-> FALSE]

\* The chat with the given cache entry and file, and no call made.
WriteStart(cache, f) ==
    /\ write_cache = cache
    /\ write_file = f
    /\ write_last = NoWriteResult
    /\ write_calls = 0

WriteParked == WriteStart(NoModelContext, NoModelFile)

\* The client adapters found in the clients directory, and the monitor
\* tasks a behaviour can create for each.
Adapters == {"a1", "a2"}
MaxMonitors == 3
MonitorIds == 1 .. MaxMonitors
NoMonitor == [pc |-> "none", attempt |-> 0]

\* PortManager.__init__ and _load_client_module_async: each connection is
\* registered with is_connected False and no task is created.
MonParked ==
    /\ mon_connected = [a \in Adapters |-> FALSE]
    /\ mon_link = [a \in Adapters |-> FALSE]
    /\ mon_tasks = [a \in Adapters |-> [t \in MonitorIds |-> NoMonitor]]
    /\ mon_disconnects = [a \in Adapters |-> 0]

\* Both queues of the chat empty and both consumers waiting in get().
LoadParked ==
    /\ load_message_queue = <<>>
    /\ load_llm_queue = <<>>
    /\ load_mcons = [pc |-> "get", cur |-> "-"]
    /\ load_lcons = "get"
    /\ load_putters = <<>>
    /\ load_arrivals = 0

YParked == WriteParked /\ MonParked /\ LoadParked

XParked == ResultParked /\ SbParked /\ ArgParked /\ YParked

EParked == EStart(<<"k">>) /\ MParked /\ CmdParked /\ TurnParked /\ XParked

\* The queue manager, the session store and the rules manager after
\* initialize, under the configured rules mode.
QStart(configured) ==
    /\ is_running = TRUE
    /\ message_queues = [c \in Chats |-> 0]
    /\ llm_queues = [c \in Chats |-> 0]
    /\ queues = [q \in QueueObjs |-> <<>>]
    /\ next_queue = 1
    /\ message_consumers = [c \in Chats |-> 0]
    /\ llm_consumers = [c \in Chats |-> 0]
    /\ mcons = [c \in Chats |-> NoConsumer]
    /\ lcons = [c \in Chats |-> NoConsumer]
    /\ putters = {}
    /\ sessions = {}
    /\ session_counter = 0
    /\ session_lock = "-"
    /\ stop_pc = "run"
    /\ dirty_chats = {}
    /\ config_mode = configured
    /\ parallel_mode = InitializeMode(configured)
    /\ arrivals = 0
    /\ put_count = [q \in QueueObjs |-> 0]
    /\ got_count = [q \in QueueObjs |-> 0]
    /\ done_count = [q \in QueueObjs |-> 0]
    /\ b_count = [c \in Chats |-> 0]
    /\ last_enqueue = [chat |-> "-", running |-> TRUE, full |-> FALSE, outcome |-> "-"]
    /\ c_returned = {}

QInit == \E configured \in {"all", "wait"} : QStart(configured)

\* The queues at rest, for the specifications that do not run them.
QParked == QStart("wait")

\* A frontend delivers a message: AgentCore._handle_incoming_message_with_images
\* calls enqueue_message.  put() on a full queue suspends the caller.  A
\* queue manager that is not running returns None at lines 91-93.
Arrive(c, is_respond) ==
    LET q == MessageQueueAfter(c)
        task == [NoTask EXCEPT !.wf = DetermineWorkflowType(is_respond)]
    IN
    /\ arrivals < MaxArrivals
    /\ arrivals' = arrivals + 1
    /\ IF ~is_running
       THEN /\ last_enqueue' = [chat |-> c, running |-> FALSE, full |-> FALSE, outcome |-> "null"]
            /\ UNCHANGED <<message_queues, next_queue, message_consumers, mcons,
                           queues, put_count, putters>>
       ELSE /\ EnsureMessageQueue(c)
            /\ IF ~Full(q)
               THEN /\ Put(q, task)
                    /\ last_enqueue' = [chat |-> c, running |-> TRUE, full |-> FALSE, outcome |-> "task_id"]
                    /\ UNCHANGED putters
               ELSE /\ putters' = putters \cup {[chat |-> c, n |-> arrivals + 1, queue |-> q, task |-> task]}
                    /\ last_enqueue' = [chat |-> c, running |-> TRUE, full |-> TRUE, outcome |-> "suspended"]
                    /\ UNCHANGED <<queues, put_count>>
    /\ UNCHANGED <<done_count, is_running, llm_queues, llm_consumers, lcons, sessions,
                   session_counter, session_lock, stop_pc, dirty_chats, config_mode, parallel_mode, got_count,
                   b_count, c_returned>>
    /\ UNCHANGED <<tvars, cvars, pvars, evars>>

\* A suspended put() goes on once its queue has room.
PutterResume(p) ==
    /\ p \in putters
    /\ ~Full(p.queue)
    /\ Put(p.queue, p.task)
    /\ putters' = putters \ {p}
    /\ UNCHANGED <<done_count, is_running, message_queues, llm_queues, next_queue,
                   message_consumers, llm_consumers, mcons, lcons, sessions,
                   session_counter, session_lock, stop_pc, dirty_chats, config_mode, parallel_mode, arrivals,
                   got_count, b_count, last_enqueue, c_returned>>
    /\ UNCHANGED <<tvars, cvars, pvars, evars>>

\* _message_consumer_loop lines 218-222: the first run of the consumer task
\* looks its queue up.
MsgConsumerStart(c) ==
    /\ mcons[c].pc = "new"
    /\ mcons' = [mcons EXCEPT ![c] = [@ EXCEPT !.pc = IF message_queues[c] = 0 THEN "stopped" ELSE "idle",
                                               !.queue = message_queues[c]]]
    /\ UNCHANGED <<done_count, is_running, message_queues, llm_queues, queues, next_queue,
                   message_consumers, llm_consumers, lcons, putters, sessions,
                   session_counter, session_lock, stop_pc, dirty_chats, config_mode, parallel_mode, arrivals,
                   put_count, got_count, b_count, last_enqueue, c_returned>>
    /\ UNCHANGED <<tvars, cvars, pvars, evars>>

\* _message_consumer_loop lines 224-238: a task is taken and handed to the
\* task callback (the workflow engine).
MsgGet(c) ==
    LET q == mcons[c].queue IN
    /\ is_running
    /\ mcons[c].pc = "idle"
    /\ queues[q] # <<>>
    /\ queues' = [queues EXCEPT ![q] = MsgDequeue(queues[q]).rest]
    /\ got_count' = [got_count EXCEPT ![q] = @ + 1]
    /\ mcons' = [mcons EXCEPT ![c] = [@ EXCEPT !.pc = "exec", !.cur = MsgDequeue(queues[q]).task]]
    /\ UNCHANGED <<done_count, is_running, message_queues, llm_queues, next_queue,
                   message_consumers, llm_consumers, lcons, putters, sessions,
                   session_counter, session_lock, stop_pc, dirty_chats, config_mode, parallel_mode, arrivals,
                   put_count, b_count, last_enqueue, c_returned>>
    /\ UNCHANGED <<tvars, cvars, pvars, evars>>

\* _process_message_task for a workflow-A task (TaskManager._workflow_a):
\* the context is updated, the result carries no response, the message
\* callback has nothing to send; then queue.task_done().
MsgProcessA(c) ==
    /\ mcons[c].pc = "exec"
    /\ dirty_chats' = dirty_chats \cup {c}
    /\ mcons[c].cur.wf = "A"
    /\ mcons' = [mcons EXCEPT ![c] = [@ EXCEPT !.pc = "idle", !.cur = NoTask]]
    /\ done_count' = [done_count EXCEPT ![mcons[c].queue] = @ + 1]
    /\ UNCHANGED <<is_running, message_queues, llm_queues, queues, next_queue,
                   message_consumers, llm_consumers, lcons, putters, sessions,
                   session_counter, session_lock, stop_pc, config_mode, parallel_mode, arrivals,
                   put_count, got_count, b_count, last_enqueue, c_returned>>
    /\ UNCHANGED <<tvars, cvars, pvars, evars>>

\* _process_message_task for a workflow-B task whose update or session
\* creation fails (TaskManager._workflow_b lines 187-240): the result has
\* success false and handle_workflow_b_result drops it.
MsgProcessBFail(c) ==
    /\ mcons[c].pc = "exec"
    /\ dirty_chats' = dirty_chats \cup {c}
    /\ mcons[c].cur.wf = "B"
    /\ mcons' = [mcons EXCEPT ![c] = [@ EXCEPT !.pc = "idle", !.cur = NoTask]]
    /\ done_count' = [done_count EXCEPT ![mcons[c].queue] = @ + 1]
    /\ UNCHANGED <<is_running, message_queues, llm_queues, queues, next_queue,
                   message_consumers, llm_consumers, lcons, putters, sessions,
                   session_counter, session_lock, stop_pc, config_mode, parallel_mode, arrivals,
                   put_count, got_count, b_count, last_enqueue, c_returned>>
    /\ UNCHANGED <<tvars, cvars, pvars, evars>>

\* create_session (_generate_session_id line 76), get_session line 460 and
\* _cleanup_session line 87 wait for SessionManager.lock; a task that finds
\* it held by a holder that never releases it stays where it is.
SessionLockFree == session_lock = "-"

\* A message consumer whose workflow B reaches create_session while the
\* lock is held: it is suspended in _generate_session_id.
MsgSessionWait(c) ==
    /\ mcons[c].pc = "exec"
    /\ mcons[c].cur.wf = "B"
    /\ ~SessionLockFree
    /\ mcons' = [mcons EXCEPT ![c] = [@ EXCEPT !.pc = "session"]]
    /\ UNCHANGED <<is_running, message_queues, llm_queues, queues, next_queue,
                   message_consumers, llm_consumers, lcons, putters, sessions,
                   session_counter, session_lock, stop_pc, dirty_chats, config_mode, parallel_mode,
                   arrivals, put_count, got_count, done_count, b_count,
                   last_enqueue, c_returned>>
    /\ UNCHANGED <<tvars, cvars, pvars, evars>>

\* _process_message_task for a workflow-B task that succeeds: the session is
\* created (SessionManager.create_session), the message callback hands the
\* result to RulesManager.handle_workflow_b_result, and _handle_wait_mode
\* calls enqueue_llm, whose put() suspends on a full queue and which
\* returns None at lines 137-139 when the queue manager is not running.
MsgProcessB(c) ==
    LET sid == session_counter + 1
        q == LlmQueueAfter(c)
        task == [NoTask EXCEPT !.wf = "C", !.sid = sid, !.bseq = b_count[c] + 1]
    IN
    /\ mcons[c].pc = "exec"
    /\ dirty_chats' = dirty_chats \cup {c}
    /\ mcons[c].cur.wf = "B"
    /\ parallel_mode = "wait"
    /\ SessionLockFree
    /\ session_counter' = sid
    /\ sessions' = sessions \cup {sid}
    /\ b_count' = [b_count EXCEPT ![c] = @ + 1]
    /\ IF ~is_running
       THEN /\ mcons' = [mcons EXCEPT ![c] = [@ EXCEPT !.pc = "idle", !.cur = NoTask]]
            /\ done_count' = [done_count EXCEPT ![mcons[c].queue] = @ + 1]
            /\ UNCHANGED <<llm_queues, next_queue, llm_consumers, lcons,
                           queues, put_count>>
       ELSE /\ EnsureLlmQueue(c)
            /\ IF ~Full(q)
               THEN /\ Put(q, task)
                    /\ mcons' = [mcons EXCEPT ![c] = [@ EXCEPT !.pc = "idle", !.cur = NoTask]]
                    /\ done_count' = [done_count EXCEPT ![mcons[c].queue] = @ + 1]
               ELSE /\ mcons' = [mcons EXCEPT ![c] = [@ EXCEPT !.pc = "put", !.out = task]]
                    /\ UNCHANGED <<queues, put_count, done_count>>
    /\ UNCHANGED <<is_running, message_queues, message_consumers, putters,
                   session_lock, stop_pc, config_mode, parallel_mode, arrivals,
                   got_count, last_enqueue, c_returned>>
    /\ UNCHANGED <<tvars, cvars, pvars, evars>>

\* The put() of enqueue_llm goes on once the model queue has room.
MsgPutResume(c) ==
    /\ mcons[c].pc = "put"
    /\ ~Full(llm_queues[c])
    /\ Put(llm_queues[c], mcons[c].out)
    /\ mcons' = [mcons EXCEPT ![c] = [@ EXCEPT !.pc = "idle", !.cur = NoTask, !.out = NoTask]]
    /\ done_count' = [done_count EXCEPT ![mcons[c].queue] = @ + 1]
    /\ UNCHANGED <<is_running, message_queues, llm_queues, next_queue,
                   message_consumers, llm_consumers, lcons, putters, sessions,
                   session_counter, session_lock, stop_pc, dirty_chats, config_mode, parallel_mode, arrivals,
                   got_count, b_count, last_enqueue, c_returned>>
    /\ UNCHANGED <<tvars, cvars, pvars, evars>>

\* _llm_consumer_loop lines 253-257: the first run of the model consumer.
LlmConsumerStart(c) ==
    /\ lcons[c].pc = "new"
    /\ lcons' = [lcons EXCEPT ![c] = [@ EXCEPT !.pc = IF llm_queues[c] = 0 THEN "stopped" ELSE "idle",
                                               !.queue = llm_queues[c]]]
    /\ UNCHANGED <<done_count, is_running, message_queues, llm_queues, queues, next_queue,
                   message_consumers, llm_consumers, mcons, putters, sessions,
                   session_counter, session_lock, stop_pc, dirty_chats, config_mode, parallel_mode, arrivals,
                   put_count, got_count, b_count, last_enqueue, c_returned>>
    /\ UNCHANGED <<tvars, cvars, pvars, evars>>

\* _llm_consumer_loop lines 259-273 and TaskManager._workflow_c lines
\* 248-272: a workflow-C task is taken, its session is looked up and the
\* request goes to the model backend.  Without the session the workflow
\* returns an error result at once; with the session lock held get_session
\* is suspended at line 460.
LlmGet(c) ==
    LET q == lcons[c].queue
        task == LlmDequeue(queues[q]).task
    IN
    /\ is_running
    /\ lcons[c].pc = "idle"
    /\ queues[q] # <<>>
    /\ queues' = [queues EXCEPT ![q] = LlmDequeue(queues[q]).rest]
    /\ got_count' = [got_count EXCEPT ![q] = @ + 1]
    /\ lcons' = [lcons EXCEPT ![c] = [@ EXCEPT !.pc = IF task.sid \in sessions
                                                      THEN IF SessionLockFree THEN "model" ELSE "session"
                                                      ELSE "idle",
                                               !.cur = IF task.sid \in sessions THEN task ELSE NoTask]]
    /\ done_count' = [done_count EXCEPT ![q] = IF task.sid \in sessions THEN @ ELSE @ + 1]
    /\ UNCHANGED <<is_running, message_queues, llm_queues, next_queue,
                   message_consumers, llm_consumers, mcons, putters, sessions,
                   session_counter, session_lock, stop_pc, dirty_chats, config_mode, parallel_mode, arrivals,
                   put_count, b_count, last_enqueue, c_returned>>
    /\ UNCHANGED <<tvars, cvars, pvars, evars>>

\* SessionManager.cleanup_session / _cleanup_session.
CleanupSession(sid) == sessions \ {sid}

\* The sessions after workflow C has handled the model's answer
\* (_workflow_c lines 272-322).  "text": a usable response, the session is
\* cleaned up at line 291.  "null": _call_model_service returned None (no
\* adapter, or the adapter raised), the workflow returns at line 277.
\* "raise": an exception inside the try block, cleaned up at line 320.
SessionsAfterC(sid, answer) ==
    CASE answer = "text" -> CleanupSession(sid)
      [] answer = "null" -> sessions
      [] answer = "raise" -> CleanupSession(sid)

ModelAnswers == {"text", "null", "raise"}

\* The answers after which workflow C calls cleanup_session (lines 291, 320).
NeedsCleanup(answer) == SessionsAfterC(0, answer) = CleanupSession(0)

\* A model consumer whose workflow C reaches cleanup_session while the lock
\* is held: it is suspended in _cleanup_session line 87.
LlmSessionWait(c) ==
    /\ lcons[c].pc = "model"
    /\ ~SessionLockFree
    /\ lcons' = [lcons EXCEPT ![c] = [@ EXCEPT !.pc = "session"]]
    /\ UNCHANGED <<is_running, message_queues, llm_queues, queues, next_queue,
                   message_consumers, llm_consumers, mcons, putters, sessions,
                   session_counter, session_lock, stop_pc, dirty_chats, config_mode, parallel_mode,
                   arrivals, put_count, got_count, done_count, b_count,
                   last_enqueue, c_returned>>
    /\ UNCHANGED <<tvars, cvars, pvars, evars>>

\* SessionManager._cleanup_daemon lines 47-60: the daemon takes the lock,
\* collects the sessions whose last use is session_timeout_minutes old and
\* calls _cleanup_session for the first of them, which waits at line 87 for
\* the lock its caller holds (asyncio.Lock is not re-entrant).  The sessions
\* that surely age are those no task will use again: the ones their
\* workflow C has returned from without cleaning up.
Expired == sessions \cap c_returned

SessionCleanupDaemon ==
    /\ SessionLockFree
    /\ Expired # {}
    /\ session_lock' = "daemon"
    /\ UNCHANGED <<is_running, message_queues, llm_queues, queues, next_queue,
                   message_consumers, llm_consumers, mcons, lcons, putters,
                   sessions, session_counter, stop_pc, dirty_chats, config_mode,
                   parallel_mode, arrivals, put_count, got_count, done_count,
                   b_count, last_enqueue, c_returned>>
    /\ UNCHANGED <<tvars, cvars, pvars, evars>>

\* Workflow C succeeds: the message callback (_handle_message_result lines
\* 281-305) sends the response and _add_ai_reply_to_context enqueues the
\* assistant reply on the chat's message queue; put() suspends when full.
LlmModelText(c) ==
    LET sid == lcons[c].cur.sid
        q == MessageQueueAfter(c)
        task == [NoTask EXCEPT !.wf = DetermineWorkflowType(FALSE)]
    IN
    /\ lcons[c].pc = "model"
    /\ SessionLockFree
    /\ sessions' = SessionsAfterC(sid, "text")
    /\ c_returned' = c_returned \cup {sid}
    /\ IF ~is_running
       THEN /\ lcons' = [lcons EXCEPT ![c] = [@ EXCEPT !.pc = "idle", !.cur = NoTask]]
            /\ done_count' = [done_count EXCEPT ![lcons[c].queue] = @ + 1]
            /\ last_enqueue' = [chat |-> c, running |-> FALSE, full |-> FALSE, outcome |-> "null"]
            /\ UNCHANGED <<message_queues, next_queue, message_consumers,
                           mcons, queues, put_count>>
       ELSE /\ EnsureMessageQueue(c)
            /\ IF ~Full(q)
               THEN /\ Put(q, task)
                    /\ lcons' = [lcons EXCEPT ![c] = [@ EXCEPT !.pc = "idle", !.cur = NoTask]]
                    /\ done_count' = [done_count EXCEPT ![lcons[c].queue] = @ + 1]
                    /\ last_enqueue' = [chat |-> c, running |-> TRUE, full |-> FALSE, outcome |-> "task_id"]
               ELSE /\ lcons' = [lcons EXCEPT ![c] = [@ EXCEPT !.pc = "put", !.out = task]]
                    /\ last_enqueue' = [chat |-> c, running |-> TRUE, full |-> TRUE, outcome |-> "suspended"]
                    /\ UNCHANGED <<queues, put_count, done_count>>
    /\ UNCHANGED <<is_running, llm_queues, llm_consumers, putters,
                   session_counter, session_lock, stop_pc, dirty_chats, config_mode, parallel_mode, arrivals,
                   got_count, b_count>>
    /\ UNCHANGED <<tvars, cvars, pvars, evars>>

\* Workflow C fails (answer "null" or "raise"): the message callback sends
\* the error reply (_handle_message_result lines 306-317), nothing is
\* enqueued.
LlmModelFail(c, answer) ==
    LET sid == lcons[c].cur.sid IN
    /\ lcons[c].pc = "model"
    /\ answer \in {"null", "raise"}
    /\ NeedsCleanup(answer) => SessionLockFree
    /\ sessions' = SessionsAfterC(sid, answer)
    /\ c_returned' = c_returned \cup {sid}
    /\ lcons' = [lcons EXCEPT ![c] = [@ EXCEPT !.pc = "idle", !.cur = NoTask]]
    /\ done_count' = [done_count EXCEPT ![lcons[c].queue] = @ + 1]
    /\ UNCHANGED <<is_running, message_queues, llm_queues, queues, next_queue,
                   message_consumers, llm_consumers, mcons, putters,
                   session_counter, session_lock, stop_pc, dirty_chats, config_mode, parallel_mode, arrivals,
                   put_count, got_count, b_count, last_enqueue>>
    /\ UNCHANGED <<tvars, cvars, pvars, evars>>

\* The put() of the write-back goes on once the message queue has room.
LlmPutResume(c) ==
    /\ lcons[c].pc = "put"
    /\ ~Full(message_queues[c])
    /\ Put(message_queues[c], lcons[c].out)
    /\ lcons' = [lcons EXCEPT ![c] = [@ EXCEPT !.pc = "idle", !.cur = NoTask, !.out = NoTask]]
    /\ done_count' = [done_count EXCEPT ![lcons[c].queue] = @ + 1]
    /\ UNCHANGED <<is_running, message_queues, llm_queues, next_queue,
                   message_consumers, llm_consumers, mcons, putters, sessions,
                   session_counter, session_lock, stop_pc, dirty_chats, config_mode, parallel_mode, arrivals,
                   got_count, b_count, last_enqueue, c_returned>>
    /\ UNCHANGED <<tvars, cvars, pvars, evars>>

Next ==
    \/ \E c \in Chats, r \in BOOLEAN : Arrive(c, r)
    \/ \E p \in putters : PutterResume(p)
    \/ \E c \in Chats : MsgConsumerStart(c)
    \/ \E c \in Chats : MsgGet(c)
    \/ \E c \in Chats : MsgProcessA(c)
    \/ \E c \in Chats : MsgProcessBFail(c)
    \/ \E c \in Chats : MsgSessionWait(c)
    \/ \E c \in Chats : MsgProcessB(c)
    \/ \E c \in Chats : MsgPutResume(c)
    \/ \E c \in Chats : LlmConsumerStart(c)
    \/ \E c \in Chats : LlmGet(c)
    \/ \E c \in Chats : LlmModelText(c)
    \/ \E c \in Chats, a \in {"null", "raise"} : LlmModelFail(c, a)
    \/ \E c \in Chats : LlmPutResume(c)
    \/ \E c \in Chats : LlmSessionWait(c)
    \/ SessionCleanupDaemon

Init == QInit /\ TParked /\ CParked /\ PParked /\ EParked

Spec == Init /\ [][Next]_vars

(***************************************************************************)
(* Properties of Spec.                                                     *)
(***************************************************************************)
\* Tasks a consumer has taken from queue q and not yet finished.
InProgress(q) == got_count[q] - done_count[q]

\* C1: the tasks of a chat's message queue are handed to the workflow
\* engine in the order they were enqueued (the k-th task handed over is the
\* k-th task put), and the processing of one task, task callback and
\* message callback, has ended before the next one is handed over.
C1_MessageQueueFifo ==
    \A c \in Chats :
        /\ mcons[c].cur # NoTask => mcons[c].cur.seq = got_count[mcons[c].queue]
        /\ message_queues[c] # 0 =>
              /\ InProgress(message_queues[c]) \in {0, 1}
              /\ InProgress(message_queues[c]) = 1 <=> mcons[c].cur # NoTask

\* The second task of a chat is being processed while a third one waits.
C1_Witness ==
    \E c \in Chats :
        /\ mcons[c].pc = "exec"
        /\ mcons[c].cur.seq = 2
        /\ done_count[mcons[c].queue] = 1
        /\ queues[mcons[c].queue] # <<>>

\* C2: in every reachable state each chat's message queue has at most one
\* consumer task, that consumer reads from the queue object that
\* enqueue_message writes to, and so does every suspended enqueue_message.
C2_OneConsumerPerQueue ==
    \A c \in Chats :
        /\ message_consumers[c] <= 1
        /\ mcons[c].pc \in {"idle", "exec", "put"} =>
              mcons[c].queue = message_queues[c]
        /\ \A p \in putters : p.chat = c => p.queue = message_queues[c]

\* Two enqueue_message calls for a new chat have run before the consumer
\* task created by the first of them ran for the first time.
C2_Witness ==
    \E c \in Chats :
        /\ mcons[c].pc = "new"
        /\ message_consumers[c] = 1
        /\ put_count[message_queues[c]] >= 2

\* C3: an enqueue_message that finds the chat's queue at capacity returns
\* null, does not block, and leaves the queue unchanged.
C3_FullEnqueueReturnsNull ==
    /\ last_enqueue.full => last_enqueue.outcome = "null"
    /\ putters = {}
    /\ \A c \in Chats : lcons[c].pc # "put"

\* C8: whenever a workflow C that found its session has returned, on the
\* success path and on every failure path, the session no longer exists.
C8_SessionGoneAfterWorkflowC == c_returned \cap sessions = {}

\* C9: in rules mode "wait" at most one workflow C is in progress per chat,
\* and the model turns of a chat start in the order in which their
\* workflow-B results were produced.
C9_WaitModeSerial ==
    parallel_mode = "wait" =>
        \A c \in Chats :
            /\ llm_queues[c] # 0 => InProgress(llm_queues[c]) <= 1
            /\ lcons[c].cur # NoTask =>
                  lcons[c].cur.bseq = got_count[lcons[c].queue]

\* The model turn of a chat's second workflow-B result is in progress and
\* its first one has ended.
C9_Witness ==
    \E c \in Chats :
        /\ parallel_mode = "wait"
        /\ lcons[c].pc = "model"
        /\ lcons[c].cur.bseq = 2
        /\ done_count[lcons[c].queue] = 1

\* The running system under a fair event loop: a task that can take a step
\* is eventually run.
SpecLive == Init /\ [][Next]_vars /\ WF_vars(Next)

\* No consumer task has ended.
ConsumersAlive ==
    \A c \in Chats : mcons[c].pc # "stopped" /\ lcons[c].pc # "stopped"

\* Every task put on a queue has been taken and its processing has ended.
AllProcessed == \A q \in QueueObjs : done_count[q] = put_count[q]

\* C16: a failure while a task is processed (an error result of a workflow,
\* an exception of a callback) never ends the consumer task, and every task
\* put on the queue, before or after the failure, is eventually processed
\* to its end.
C16_FailureKeepsConsumer == []ConsumersAlive /\ <>[]AllProcessed

(***************************************************************************)
(* SpecStop: the same system while AgentCore.stop runs.                    *)
(***************************************************************************)
\* A consumer task that no longer runs: never created, ended, or cancelled.
Ended(cons) == cons.pc \in {"none", "stopped", "cancelled"}

\* AgentCore.stop lines 474-489 up to QueueManager.shutdown line 416: the
\* adapters are stopped, then the queue manager clears is_running.
StopBegin ==
    /\ stop_pc = "run"
    /\ stop_pc' = "cancel"
    /\ is_running' = FALSE
    /\ UNCHANGED <<message_queues, llm_queues, queues, next_queue,
                   message_consumers, llm_consumers, mcons, lcons, putters,
                   sessions, session_counter, session_lock, dirty_chats,
                   config_mode, parallel_mode, arrivals, put_count, got_count,
                   done_count, b_count, last_enqueue, c_returned>>
    /\ UNCHANGED <<tvars, cvars, pvars, evars>>

\* QueueManager.shutdown lines 419-424: a message consumer is cancelled and
\* awaited.  CancelledError is raised at the point where the task is
\* suspended; the task it was processing is dropped, and a session its
\* workflow holds stays in the store (the handlers of _workflow_b and
\* _workflow_c catch Exception only).
CancelMessageConsumer(c) ==
    /\ stop_pc = "cancel"
    /\ ~Ended(mcons[c])
    /\ mcons' = [mcons EXCEPT ![c] = [@ EXCEPT !.pc = "cancelled"]]
    /\ UNCHANGED <<is_running, message_queues, llm_queues, queues, next_queue,
                   message_consumers, llm_consumers, lcons, putters, sessions,
                   session_counter, session_lock, stop_pc, dirty_chats, config_mode,
                   parallel_mode, arrivals, put_count, got_count, done_count,
                   b_count, last_enqueue, c_returned>>
    /\ UNCHANGED <<tvars, cvars, pvars, evars>>

\* QueueManager.shutdown lines 426-431: the model consumers follow, once
\* the loop over the message consumers has ended.
CancelLlmConsumer(c) ==
    /\ stop_pc = "cancel"
    /\ \A d \in Chats : Ended(mcons[d])
    /\ ~Ended(lcons[c])
    /\ lcons' = [lcons EXCEPT ![c] = [@ EXCEPT !.pc = "cancelled"]]
    /\ UNCHANGED <<is_running, message_queues, llm_queues, queues, next_queue,
                   message_consumers, llm_consumers, mcons, putters, sessions,
                   session_counter, session_lock, stop_pc, dirty_chats, config_mode,
                   parallel_mode, arrivals, put_count, got_count, done_count,
                   b_count, last_enqueue, c_returned>>
    /\ UNCHANGED <<tvars, cvars, pvars, evars>>

\* clear_queue lines 370-407: get_nowait until the queue is empty, for
\* every queue of message_queues and of llm_queues.
ClearQueue(q) ==
    IF \E c \in Chats : message_queues[c] = q \/ llm_queues[c] = q
    THEN <<>>
    ELSE queues[q]

\* QueueManager.shutdown lines 433-437: both kinds of queue are cleared and
\* shutdown returns.  (get_nowait wakes the callers suspended in put(); they
\* run when AgentCore.stop next suspends.)
ShutdownClear ==
    /\ stop_pc = "cancel"
    /\ \A c \in Chats : Ended(mcons[c]) /\ Ended(lcons[c])
    /\ queues' = [q \in QueueObjs |-> ClearQueue(q)]
    /\ stop_pc' = "returned"
    /\ UNCHANGED <<is_running, message_queues, llm_queues, next_queue,
                   message_consumers, llm_consumers, mcons, lcons, putters,
                   sessions, session_counter, session_lock, dirty_chats,
                   config_mode, parallel_mode, arrivals, put_count, got_count,
                   done_count, b_count, last_enqueue, c_returned>>
    /\ UNCHANGED <<tvars, cvars, pvars, evars>>

\* ContextManager._cleanup_daemon lines 99-113 for a chat it finds inactive
\* (SpecCtx): the context is saved and leaves the cache.  The time without
\* traffic that this takes (cache_inactive_unload_seconds) does not pass
\* while stop runs.
ContextEvicted(c) ==
    /\ stop_pc = "run"
    /\ c \in dirty_chats
    /\ dirty_chats' = dirty_chats \ {c}
    /\ UNCHANGED <<is_running, message_queues, llm_queues, queues, next_queue,
                   message_consumers, llm_consumers, mcons, lcons, putters,
                   sessions, session_counter, session_lock, stop_pc,
                   config_mode, parallel_mode, arrivals, put_count, got_count,
                   done_count, b_count, last_enqueue, c_returned>>
    /\ UNCHANGED <<tvars, cvars, pvars, evars>>

\* AgentCore.stop lines 491-498: the image manager and then the context
\* store are shut down and stop returns.  ContextManager.shutdown returns
\* only when it finds no dirty context (SpecCtxStop).
StopFlush ==
    /\ stop_pc = "returned"
    /\ stop_pc' = IF dirty_chats # {} THEN "flush" ELSE "stopped"
    /\ UNCHANGED <<is_running, message_queues, llm_queues, queues, next_queue,
                   message_consumers, llm_consumers, mcons, lcons, putters,
                   sessions, session_counter, session_lock, dirty_chats,
                   config_mode, parallel_mode, arrivals, put_count, got_count,
                   done_count, b_count, last_enqueue, c_returned>>
    /\ UNCHANGED <<tvars, cvars, pvars, evars>>

NextStop ==
    \/ Next
    \/ StopBegin
    \/ \E c \in Chats : CancelMessageConsumer(c)
    \/ \E c \in Chats : CancelLlmConsumer(c)
    \/ ShutdownClear
    \/ \E c \in Chats : ContextEvicted(c)
    \/ StopFlush

SpecStop == Init /\ [][NextStop]_vars

\* AgentCore.stop has returned.
Stopped == stop_pc = "stopped"

\* C18: once AgentCore.stop has returned, the session store holds no
\* session, whatever sessions were open when it was called.
C18_NoSessionAfterStop == Stopped => sessions = {}

\* QueueManager.shutdown has returned.
QueueShutdownReturned == stop_pc \in {"returned", "flush", "stopped"}

\* C19: once QueueManager.shutdown has returned, every consumer task has
\* ended, every queue is empty, and an enqueue_message call made while the
\* queue manager is not running has returned null.
C19_NothingAfterShutdown ==
    /\ QueueShutdownReturned =>
          /\ \A c \in Chats : Ended(mcons[c]) /\ Ended(lcons[c])
          /\ \A q \in QueueObjs : queues[q] = <<>>
    /\ ~last_enqueue.running => last_enqueue.outcome = "null"

(***************************************************************************)
(* SpecTool: the workflows C (TaskManager._workflow_c) that carry one       *)
(* session id, and their tool loops (_process_tool_calls).  The model       *)
(* backend answers each call with None, with a text, or with a request for  *)
(* 1 .. MaxBatchSize tool calls.  A workflow runs without interruption      *)
(* from one await that suspends to the next: the awaits of the model        *)
(* backend and of a tool suspend; those of the session store do not (its    *)
(* lock is free, and no helper it calls waits).                             *)
(***************************************************************************)
\* What the n-th model call answers: None for kind -1, else a response
\* that requests `kind` tool calls.
ResponseKinds == -1 .. MaxBatchSize
ModelResponse(n, kind) ==
    IF kind < 0 THEN NoCommandResponse ELSE [n |-> n, calls |-> kind]

\* _has_tool_calls lines 459-475.
HasToolCalls(response) == response.n # 0 /\ response.calls > 0

\* The loop condition of _process_tool_calls, line 405.
\* (LoopGuardUnbounded is the variant without the limit; C10 is compared
\* against it.)
LoopGuardUnbounded(count) == TRUE
LoopGuard(count) == count < MaxToolCalls

\* The tools a response may request: one that answers within the timeout
\* of its configuration, and one that does not.
ToolKinds == {"fast", "slow"}

\* _execute_tool_call lines 502-584: a result message, or None when the
\* call raises.  plugins/tool_manager.py defines execute_tool_with_timeout
\* and no execute_tool, so with that tool manager line 526 raises
\* AttributeError and every call gives None; a tool manager that has the
\* method gives a result or raises.
ExecuteToolOutcomes(has_method) ==
    IF has_method THEN {"result", "none"} ELSE {"none"}

\* The message _execute_tool_call returns (lines 575-580): its content is
\* the JSON text of whatever execute_tool returned.
ToolMessage == [role |-> "tool", content |-> "json"]

\* update_session lines 483-487: every result is appended, and the count
\* grows by the number of results.
\* (UpdateSessionCountOnce is the variant that counts the call; C13 is
\* compared against it.)
AppendResults(messages, n) == messages \o [i \in 1 .. n |-> ToolMessage]
UpdateSessionCountOnce(count, n) == count + 1
UpdateSessionCount(count, n) == count + n

\* A workflow that is running on the event loop (not suspended in an await
\* of the model backend or of a tool), and a workflow that may run.
Busy(w) ==
    \/ tpc[w] = "loop"
    \/ tpc[w] = "tools" /\ (~has_execute_tool \/ pending[w] = 0)
MayRun(w) == \A v \in Workflows \ {w} : ~Busy(v)

\* _workflow_c lines 287-291 after the loop has returned: cleanup_session
\* removes the session.
SessionAfter(pc, exists) == IF pc = "done" THEN FALSE ELSE exists

\* The session of a workflow-C task after workflow B has created it, and
\* the execute_task calls that carry its id: `calls` of them have been made.
TStart(calls) ==
    /\ has_execute_tool \in BOOLEAN
    /\ tpc = [w \in Workflows |-> IF w \in calls THEN "start" ELSE "off"]
    /\ call_count = [w \in Workflows |-> 0]
    /\ current_response = [w \in Workflows |-> NoCommandResponse]
    /\ pending = [w \in Workflows |-> 0]
    /\ tool_results = [w \in Workflows |-> 0]
    /\ final_response = [w \in Workflows |-> NoCommandResponse]
    /\ session_exists = TRUE
    /\ session_messages = <<>>
    /\ tool_call_count = 0
    /\ model_calls = [w \in Workflows |-> 0]
    /\ batches = [w \in Workflows |-> 0]
    /\ last_batch = [w \in Workflows |-> NoBatch]

\* The rules manager makes one workflow-C task for a session
\* (RulesManager.handle_workflow_b_result), so one call carries its id.
TInit == TStart({"w1"})

\* The model backend still answers: always when one call runs, and
\* MaxRaceModelCalls times when several do.
ModelAnswersLeft ==
    \/ \E w \in Workflows : tpc[w] = "off"
    \/ model_calls["w1"] + model_calls["w2"] < MaxRaceModelCalls

\* _workflow_c lines 254-272: get_session, and without the session an
\* error result; with it the first request to the model backend is sent.
WorkflowBegin(w) ==
    /\ tpc[w] = "start"
    /\ MayRun(w)
    /\ tpc' = [tpc EXCEPT ![w] = IF session_exists THEN "first" ELSE "failed"]
    /\ UNCHANGED <<has_execute_tool, call_count, current_response, pending,
                   tool_results, final_response, session_exists,
                   session_messages, tool_call_count, model_calls, batches,
                   last_batch>>
    /\ UNCHANGED <<qvars, cvars, pvars, evars>>

\* _workflow_c lines 272-285: the first model call.  Without a response the
\* workflow returns an error result and the loop is not entered.
CallModelFirst(w, kind) ==
    LET response == ModelResponse(1, kind) IN
    /\ tpc[w] = "first"
    /\ MayRun(w)
    /\ ModelAnswersLeft
    /\ model_calls' = [model_calls EXCEPT ![w] = 1]
    /\ current_response' = [current_response EXCEPT ![w] = response]
    /\ tpc' = [tpc EXCEPT ![w] =
                  IF response = NoCommandResponse THEN "failed" ELSE "loop"]
    /\ UNCHANGED <<has_execute_tool, call_count, pending, tool_results,
                   final_response, session_exists, session_messages,
                   tool_call_count, batches, last_batch>>
    /\ UNCHANGED <<qvars, cvars, pvars, evars>>

\* _process_tool_calls lines 405-416 and 457: the loop condition and the
\* check for tool calls; the loop is left with current_response as result.
LoopTop(w) ==
    /\ tpc[w] = "loop"
    /\ MayRun(w)
    /\ IF LoopGuard(call_count[w]) /\ HasToolCalls(current_response[w])
       THEN /\ tpc' = [tpc EXCEPT ![w] = "tools"]
            /\ pending' = [pending EXCEPT ![w] = current_response[w].calls]
            /\ tool_results' = [tool_results EXCEPT ![w] = 0]
            /\ batches' = [batches EXCEPT ![w] = @ + 1]
            /\ last_batch' = [last_batch EXCEPT ![w] =
                  [requested |-> current_response[w].calls, slow |-> FALSE,
                   appended |-> <<>>, again |-> FALSE]]
            /\ UNCHANGED <<final_response, session_exists>>
       ELSE /\ tpc' = [tpc EXCEPT ![w] = "done"]
            /\ final_response' = [final_response EXCEPT ![w] =
                                     current_response[w]]
            /\ session_exists' = SessionAfter("done", session_exists)
            /\ UNCHANGED <<pending, tool_results, batches, last_batch>>
    /\ UNCHANGED <<has_execute_tool, call_count, current_response,
                   session_messages, tool_call_count, model_calls>>
    /\ UNCHANGED <<qvars, cvars, pvars, evars>>

\* _process_tool_calls lines 417-425: the next tool call of the batch.
ExecuteToolCall(w, tool, outcome) ==
    /\ tpc[w] = "tools"
    /\ MayRun(w)
    /\ pending[w] > 0
    /\ outcome \in ExecuteToolOutcomes(has_execute_tool)
    /\ pending' = [pending EXCEPT ![w] = @ - 1]
    /\ tool_results' = [tool_results EXCEPT ![w] =
                           IF outcome = "result" THEN @ + 1 ELSE @]
    /\ last_batch' = [last_batch EXCEPT ![w].slow = @ \/ tool = "slow"]
    /\ UNCHANGED <<has_execute_tool, tpc, call_count, current_response,
                   final_response, session_exists, session_messages,
                   tool_call_count, model_calls, batches>>
    /\ UNCHANGED <<qvars, cvars, pvars, evars>>

\* _process_tool_calls lines 427-447: a batch without results ends the
\* loop; otherwise update_session puts the results into the session, if it
\* still exists, and the next request to the model backend is sent.
BatchEnd(w) ==
    LET n == tool_results[w] IN
    /\ tpc[w] = "tools"
    /\ MayRun(w)
    /\ pending[w] = 0
    /\ IF n = 0
       THEN /\ tpc' = [tpc EXCEPT ![w] = "done"]
            /\ final_response' = [final_response EXCEPT ![w] =
                                     current_response[w]]
            /\ session_exists' = SessionAfter("done", session_exists)
            /\ UNCHANGED <<session_messages, tool_call_count, last_batch>>
       ELSE /\ tpc' = [tpc EXCEPT ![w] = "model"]
            /\ IF session_exists
               THEN /\ session_messages' = AppendResults(session_messages, n)
                    /\ tool_call_count' = UpdateSessionCount(tool_call_count, n)
                    /\ last_batch' = [last_batch EXCEPT ![w].appended =
                                         AppendResults(<<>>, n)]
               ELSE UNCHANGED <<session_messages, tool_call_count, last_batch>>
            /\ UNCHANGED <<final_response, session_exists>>
    /\ UNCHANGED <<has_execute_tool, call_count, current_response, pending,
                   tool_results, model_calls, batches>>
    /\ UNCHANGED <<qvars, cvars, pvars, evars>>

\* _process_tool_calls lines 447-451 and 457: the next model call; None
\* ends the loop and is what the loop returns.
CallModelAgain(w, kind) ==
    LET response == ModelResponse(model_calls[w] + 1, kind) IN
    /\ tpc[w] = "model"
    /\ MayRun(w)
    /\ ModelAnswersLeft
    /\ model_calls' = [model_calls EXCEPT ![w] = @ + 1]
    /\ current_response' = [current_response EXCEPT ![w] = response]
    /\ last_batch' = [last_batch EXCEPT ![w].again = TRUE]
    /\ IF response = NoCommandResponse
       THEN /\ tpc' = [tpc EXCEPT ![w] = "done"]
            /\ final_response' = [final_response EXCEPT ![w] = response]
            /\ session_exists' = SessionAfter("done", session_exists)
            /\ UNCHANGED call_count
       ELSE /\ tpc' = [tpc EXCEPT ![w] = "loop"]
            /\ call_count' = [call_count EXCEPT ![w] = @ + 1]
            /\ UNCHANGED <<final_response, session_exists>>
    /\ UNCHANGED <<has_execute_tool, pending, tool_results, session_messages,
                   tool_call_count, batches>>
    /\ UNCHANGED <<qvars, cvars, pvars, evars>>

TNext ==
    \/ \E w \in Workflows : WorkflowBegin(w)
    \/ \E w \in Workflows, k \in ResponseKinds : CallModelFirst(w, k)
    \/ \E w \in Workflows : LoopTop(w)
    \/ \E w \in Workflows, t \in ToolKinds, o \in {"result", "none"} :
          ExecuteToolCall(w, t, o)
    \/ \E w \in Workflows : BatchEnd(w)
    \/ \E w \in Workflows, k \in ResponseKinds : CallModelAgain(w, k)

\* Every model request has a total timeout (models/LMStudio_model.py line
\* 280) and every other step runs to its end without waiting, so each step
\* of a workflow that can be taken is taken.
InitTool == TInit /\ QParked /\ CParked /\ PParked /\ EParked

SpecTool == InitTool /\ [][TNext]_vars /\ WF_vars(TNext)

\* Every workflow has returned.
ToolLoopReturned == \A w \in Workflows : tpc[w] \in {"off", "done", "failed"}

ToolLoopWithinBounds ==
    \A w \in Workflows :
        /\ batches[w] <= MaxToolCalls
        /\ model_calls[w] <= MaxToolCalls + 1
        /\ tpc[w] = "done" => final_response[w] = current_response[w]
        /\ tpc[w] = "done" /\ call_count[w] = MaxToolCalls =>
              /\ final_response[w] # NoCommandResponse
              /\ final_response[w].n = model_calls[w]

\* C10: the tool loop of one workflow C always terminates; it runs at most
\* max_tool_calls tool batches and so at most max_tool_calls + 1 model
\* calls, even if every response requests tools, and when the bound is
\* reached the loop returns the last model response as the final one.
C10_ToolLoopTerminates == []ToolLoopWithinBounds /\ <>ToolLoopReturned

\* The bound was reached: max_tool_calls batches ran and the loop returned
\* the last response, which still requests tools.
C10_Witness ==
    \E w \in Workflows :
        /\ tpc[w] = "done"
        /\ call_count[w] = MaxToolCalls
        /\ batches[w] = MaxToolCalls
        /\ model_calls[w] = MaxToolCalls + 1
        /\ HasToolCalls(final_response[w])

\* SpecRace: the same workflows when two execute_task calls carry the id of
\* one session.
InitRace == TStart(Workflows) /\ QParked /\ CParked /\ PParked /\ EParked

SpecRace == InitRace /\ [][TNext]_vars

\* ToolManager.execute_tool_with_timeout lines 443-455: the text it returns
\* for a tool that answers in time and for one that does not.
ExecuteToolWithTimeout(tool) == IF tool = "slow" THEN "timeout" ELSE "result"

\* The last batch of a workflow is over: its calls were executed and the
\* loop went on or ended.
BatchOver(w) == batches[w] > 0 /\ tpc[w] # "tools"

\* The assistant message that carries the tool calls of a response.
ToolCallsMessage == [role |-> "assistant", content |-> "tool_calls"]

\* C11: for every tool batch the session receives first the assistant
\* message with the tool calls, then one tool message per requested call,
\* and only then is the model called again.
C11_TranscriptOrder ==
    \A w \in Workflows :
        BatchOver(w) =>
            /\ last_batch[w].appended =
                  <<ToolCallsMessage>>
                     \o AppendResults(<<>>, last_batch[w].requested)
            /\ tpc[w] \in {"loop", "done"} => last_batch[w].again

ToolMessages(messages) ==
    {i \in 1 .. Len(messages) : messages[i].role = "tool"}

\* C13: tool_call_count equals the number of tool-role messages that
\* update_session has appended to the session since it was created.
C13_ToolCallCount ==
    tool_call_count = Cardinality(ToolMessages(session_messages))

\* Two batches have put their results into the session, one of them more
\* than one result.
C13_Witness ==
    /\ batches["w1"] >= 2
    /\ tool_call_count >= 3
    /\ Len(session_messages) = tool_call_count

\* C14: when a tool call exceeds its deadline, the timeout text becomes its
\* tool message in the session and the loop goes on: the model is called
\* again with the updated session.
C14_TimeoutGoesOn ==
    \A w \in Workflows :
        BatchOver(w) /\ last_batch[w].slow =>
            /\ \E i \in 1 .. Len(last_batch[w].appended) :
                  last_batch[w].appended[i].content =
                     ExecuteToolWithTimeout("slow")
            /\ tpc[w] \in {"loop", "done"} => last_batch[w].again

(***************************************************************************)
(* SpecPort: PortManager.send_to_model_async.  Its lock (model_lock) is     *)
(* taken only there and never held across an await, so the selection with   *)
(* its increment is one step, and the end of the adapter's call with the    *)
(* decrement is another.                                                    *)
(***************************************************************************)
\* Adapters as _load_model_module registers them (lines 211-219).
PInit ==
    /\ is_connected = [m \in Models |-> FALSE]
    /\ concurrent_requests = [m \in Models |-> 0]
    /\ rpc = [r \in Requests |-> "idle"]
    /\ selected_model = [r \in Requests |-> "-"]
    /\ returned = [r \in Requests |-> "-"]

\* start (lines 263, 284) connects an adapter; its monitor (lines 317-319)
\* or stop (lines 587-600) marks it disconnected.
ConnectionChange(m) ==
    /\ is_connected' = [is_connected EXCEPT ![m] = ~@]
    /\ UNCHANGED <<concurrent_requests, rpc, selected_model, returned>>
    /\ UNCHANGED <<qvars, tvars, cvars, evars>>

\* send_to_model_async lines 490-508: select an adapter and count the
\* request, or return None when no adapter is available.
SendToModel(r) ==
    LET m == SelectModel IN
    /\ rpc[r] = "idle"
    /\ selected_model' = [selected_model EXCEPT ![r] = m]
    /\ IF m = "-"
       THEN /\ returned' = [returned EXCEPT ![r] = "unavailable"]
            /\ UNCHANGED <<concurrent_requests, rpc>>
       ELSE /\ concurrent_requests' =
                  [concurrent_requests EXCEPT ![m] = @ + 1]
            /\ rpc' = [rpc EXCEPT ![r] = "sent"]
            /\ returned' = [returned EXCEPT ![r] = "-"]
    /\ UNCHANGED is_connected
    /\ UNCHANGED <<qvars, tvars, cvars, evars>>

\* send_to_model_async lines 503-521: the adapter's call ends with a
\* response, with None (also when the adapter has no send_request_async),
\* with an exception, or with the cancellation of the calling task; the
\* finally clause takes the request off the count.
AdapterEnds(r, how) ==
    /\ rpc[r] = "sent"
    /\ concurrent_requests' =
          [concurrent_requests EXCEPT ![selected_model[r]] = @ - 1]
    /\ rpc' = [rpc EXCEPT ![r] = "idle"]
    /\ returned' = [returned EXCEPT ![r] = how]
    /\ UNCHANGED <<is_connected, selected_model>>
    /\ UNCHANGED <<qvars, tvars, cvars, evars>>

PNext ==
    \/ \E m \in Models : ConnectionChange(m)
    \/ \E r \in Requests : SendToModel(r)
    \/ \E r \in Requests, how \in {"response", "none", "raised", "cancelled"} :
          AdapterEnds(r, how)

InitPort == PInit /\ QParked /\ TParked /\ CParked /\ EParked

SpecPort == InitPort /\ [][PNext]_vars

\* The calls that have selected adapter m and have not ended.
InFlight(m) == {r \in Requests : rpc[r] = "sent" /\ selected_model[r] = m}

\* C15: for every adapter the in-flight count stays between 0 and
\* max_concurrent_requests and equals the number of calls that selected the
\* adapter and have not ended: each such call takes itself off the count
\* exactly once, however it ends, and a call that finds no adapter
\* available returns None and changes no count.
C15_InFlightWithinLimit ==
    \A m \in Models :
        /\ 0 <= concurrent_requests[m]
        /\ concurrent_requests[m] <= MaxConcurrentRequests
        /\ concurrent_requests[m] = Cardinality(InFlight(m))

\* Every adapter is connected and at its limit, and a call that found none
\* available has returned None.
C15_Witness ==
    /\ \A m \in Models :
          is_connected[m] /\ concurrent_requests[m] = MaxConcurrentRequests
    /\ \E r \in Requests : rpc[r] = "idle" /\ returned[r] = "unavailable"

(***************************************************************************)
(* SpecCtx: the operations on the context of one chat.                     *)
(***************************************************************************)
\* The file of the chat when the store is constructed: none, or the one an
\* earlier run has saved (here of a context that is still the default one).
FilesAtStart == {NoFile, [kind |-> "json", messages |-> EnsureDefaultContext]}

CInit ==
    /\ virtual_reply_enabled \in BOOLEAN
    /\ context_cache = <<>>
    /\ cache_status = NotCached
    /\ file \in FilesAtStart
    /\ lock = "-"
    /\ cpc = [t \in Tasks |-> "idle"]
    /\ op = NoOp
    /\ trim = NoTrim
    /\ dumps = [t \in Tasks |-> NoDump]
    /\ next_id = 1
    /\ updates = 0
    /\ commands = 0
    /\ evictions = 0
    /\ last_update = NoUpdate

\* The message consumer is between two tasks.
ConsumerIdle == cpc["m"] = "idle"

\* get_context lines 267-327 when the chat is not cached and has a file:
\* the file is loaded in an executor thread while the lock is held.
MustLoad == ~cache_status.cached /\ file.kind # "absent"

\* get_context lines 270-320 up to its first suspension point: a cache hit,
\* a new default context (dirty), or the start of the load.
GetContext(next_pc) ==
    /\ lock = "-"
    /\ IF cache_status.cached
       THEN /\ cpc' = [cpc EXCEPT !["m"] = next_pc]
            /\ UNCHANGED <<context_cache, cache_status, lock>>
       ELSE IF file.kind = "absent"
       THEN /\ context_cache' = EnsureDefaultContext
            /\ cache_status' = [cached |-> TRUE, is_dirty |-> TRUE]
            /\ cpc' = [cpc EXCEPT !["m"] = next_pc]
            /\ UNCHANGED lock
       ELSE /\ lock' = "m"
            /\ cpc' = [cpc EXCEPT !["m"] = "load"]
            /\ UNCHANGED <<context_cache, cache_status>>

\* update_context lines 437-447: the call, with a user entry or with the
\* assistant entry of a write-back, up to the end of get_context.
UpdateBegin(role) ==
    /\ ConsumerIdle
    /\ updates < MaxUpdates
    /\ updates' = updates + 1
    /\ next_id' = next_id + 1
    /\ op' = [kind |-> role, entry |-> Msg(role, next_id)]
    /\ GetContext("append")
    /\ UNCHANGED <<virtual_reply_enabled, file, trim, dumps, commands,
                   evictions, last_update>>
    /\ UNCHANGED <<qvars, tvars, pvars, evars>>

\* get_context lines 284-302 (or 304-320 when the file does not parse): the
\* load has ended, the context is cached and the lock released.
GetContextLoaded ==
    LET loaded == LoadContextFromFile(file) IN
    /\ cpc["m"] = "load"
    /\ IF loaded # <<>>
       THEN /\ context_cache' = loaded
            /\ cache_status' = [cached |-> TRUE, is_dirty |-> FALSE]
       ELSE /\ context_cache' = EnsureDefaultContext
            /\ cache_status' = [cached |-> TRUE, is_dirty |-> TRUE]
    /\ lock' = "-"
    /\ cpc' = [cpc EXCEPT !["m"] = IF op.kind = "view" THEN "idle" ELSE "append"]
    /\ op' = IF op.kind = "view" THEN NoOp ELSE op
    /\ UNCHANGED <<virtual_reply_enabled, file, trim, dumps, next_id, updates,
                   commands, evictions, last_update>>
    /\ UNCHANGED <<qvars, tvars, pvars, evars>>

\* _trim_context_messages lines 349-366: the count of the user messages
\* and the early return.
EnterTrim(messages) ==
    IF UserCount(messages) <= MaxUserMessages
    THEN /\ cpc' = [cpc EXCEPT !["m"] = "mark"]
         /\ trim' = NoTrim
    ELSE /\ cpc' = [cpc EXCEPT !["m"] = "trim"]
         /\ trim' = [i |-> 1, removed_count |-> 0,
                     messages_to_remove |-> UserCount(messages) - MaxUserMessages]

\* update_context lines 449-471: the entry is appended.
UpdateAppend ==
    /\ cpc["m"] = "append"
    /\ context_cache' = Append(context_cache, op.entry)
    /\ last_update' = [NoUpdate EXCEPT !.pre = context_cache, !.entry = op.entry]
    /\ IF op.kind = "user" /\ virtual_reply_enabled
       THEN /\ cpc' = [cpc EXCEPT !["m"] = "virtual"]
            /\ UNCHANGED trim
       ELSE EnterTrim(context_cache')
    /\ UNCHANGED <<virtual_reply_enabled, cache_status, file, lock, op, dumps,
                   next_id, updates, commands, evictions>>
    /\ UNCHANGED <<qvars, tvars, pvars, evars>>

\* update_context lines 473-480: the virtual reply is appended.
UpdateVirtual ==
    /\ cpc["m"] = "virtual"
    /\ context_cache' = Append(context_cache, Msg("assistant", op.entry.id))
    /\ EnterTrim(context_cache')
    /\ UNCHANGED <<virtual_reply_enabled, cache_status, file, lock, op, dumps,
                   next_id, updates, commands, evictions, last_update>>
    /\ UNCHANGED <<qvars, tvars, pvars, evars>>

\* _trim_context_messages lines 368-414: one iteration of the loop.
TrimStep ==
    LET step == TrimIteration(context_cache, trim) IN
    /\ cpc["m"] = "trim"
    /\ context_cache' = step.messages
    /\ IF TrimLoopCondition(step.messages, step.trim)
       THEN /\ trim' = step.trim
            /\ UNCHANGED cpc
       ELSE /\ trim' = NoTrim
            /\ cpc' = [cpc EXCEPT !["m"] = "mark"]
    /\ UNCHANGED <<virtual_reply_enabled, cache_status, file, lock, op, dumps,
                   next_id, updates, commands, evictions, last_update>>
    /\ UNCHANGED <<qvars, tvars, pvars, evars>>

\* update_context lines 485-496: the context is marked dirty and the call
\* returns.
UpdateMark ==
    /\ cpc["m"] = "mark"
    /\ cache_status' = IF cache_status.cached
                       THEN [cache_status EXCEPT !.is_dirty = TRUE]
                       ELSE cache_status
    /\ last_update' = [last_update EXCEPT !.post = context_cache, !.done = TRUE]
    /\ cpc' = [cpc EXCEPT !["m"] = "idle"]
    /\ op' = NoOp
    /\ UNCHANGED <<virtual_reply_enabled, context_cache, file, lock, trim,
                   dumps, next_id, updates, commands, evictions>>
    /\ UNCHANGED <<qvars, tvars, pvars, evars>>

\* _remove_from_cache and the reload that follow the first save of a prompt
\* mutator (update_custom_prompt lines 681-686): with a file the load
\* suspends; without one the default context is edited, cached and saved
\* at once (lines 688-727).  f is the file, ds the dumps at that moment.
MutateReload(kind, f, ds) ==
    IF f.kind = "absent"
    THEN /\ context_cache' = EditPrompt(EnsureDefaultContext, kind)
         /\ cache_status' = [cached |-> TRUE, is_dirty |-> TRUE]
         /\ dumps' = StartDump(Detach(ds), "m")
         /\ file' = Truncated
         /\ cpc' = [cpc EXCEPT !["m"] = "mut_save2"]
    ELSE /\ context_cache' = <<>>
         /\ cache_status' = NotCached
         /\ dumps' = Detach(ds)
         /\ file' = f
         /\ cpc' = [cpc EXCEPT !["m"] = "mut_load"]

\* update_custom_prompt (kind "set") / delete_custom_prompt (kind
\* "delete"), lines 678-686 and 754-762: a dirty context is saved first.
MutateBegin(kind) ==
    /\ ConsumerIdle
    /\ commands < MaxCommands
    /\ commands' = commands + 1
    /\ op' = [NoOp EXCEPT !.kind = kind]
    /\ IF cache_status.cached /\ cache_status.is_dirty
       THEN /\ dumps' = StartDump(dumps, "m")
            /\ file' = Truncated
            /\ cpc' = [cpc EXCEPT !["m"] = "mut_save1"]
            /\ UNCHANGED <<context_cache, cache_status>>
       ELSE MutateReload(kind, file, dumps)
    /\ UNCHANGED <<virtual_reply_enabled, lock, trim, next_id, updates,
                   evictions, last_update>>
    /\ UNCHANGED <<qvars, tvars, pvars, evars>>

\* The first save has ended (_save_context_to_file lines 174-181); then
\* lines 681-686 as above.
MutateSaved1 ==
    /\ cpc["m"] = "mut_save1"
    /\ dumps["m"].state = "end"
    /\ MutateReload(op.kind, CloseFile("m"), [dumps EXCEPT !["m"] = NoDump])
    /\ UNCHANGED <<virtual_reply_enabled, lock, op, trim, next_id, updates,
                   commands, evictions, last_update>>
    /\ UNCHANGED <<qvars, tvars, pvars, evars>>

\* update_custom_prompt lines 684-727: the file is loaded (the default
\* context when it does not parse), the system message edited, the context
\* cached as dirty and its save started.
MutateLoaded ==
    LET loaded == LoadContextFromFile(file)
        context == IF loaded # <<>> THEN loaded ELSE EnsureDefaultContext
    IN
    /\ cpc["m"] = "mut_load"
    /\ context_cache' = EditPrompt(context, op.kind)
    /\ cache_status' = [cached |-> TRUE, is_dirty |-> TRUE]
    /\ dumps' = StartDump(Detach(dumps), "m")
    /\ file' = Truncated
    /\ cpc' = [cpc EXCEPT !["m"] = "mut_save2"]
    /\ UNCHANGED <<virtual_reply_enabled, lock, op, trim, next_id, updates,
                   commands, evictions, last_update>>
    /\ UNCHANGED <<qvars, tvars, pvars, evars>>

\* The closing save has ended (_save_context_to_file lines 174-181) and the
\* mutator returns.
MutateSaved2 ==
    /\ cpc["m"] = "mut_save2"
    /\ dumps["m"].state = "end"
    /\ file' = CloseFile("m")
    /\ dumps' = [dumps EXCEPT !["m"] = NoDump]
    /\ cache_status' = IF cache_status.cached
                       THEN [cache_status EXCEPT !.is_dirty = FALSE]
                       ELSE cache_status
    /\ cpc' = [cpc EXCEPT !["m"] = "idle"]
    /\ op' = NoOp
    /\ UNCHANGED <<virtual_reply_enabled, context_cache, lock, trim, next_id,
                   updates, commands, evictions, last_update>>
    /\ UNCHANGED <<qvars, tvars, pvars, evars>>

\* clear_context lines 926-945: an existing file is handed to an executor
\* thread to be unlinked; without a file the cache entry is removed at once
\* and the call returns success.
ClearBegin ==
    /\ ConsumerIdle
    /\ commands < MaxCommands
    /\ commands' = commands + 1
    /\ IF file.kind = "absent"
       THEN /\ context_cache' = <<>>
            /\ cache_status' = NotCached
            /\ dumps' = Detach(dumps)
            /\ UNCHANGED <<cpc, op>>
       ELSE /\ cpc' = [cpc EXCEPT !["m"] = "clear_unlink"]
            /\ op' = [NoOp EXCEPT !.kind = "clear"]
            /\ UNCHANGED <<context_cache, cache_status, dumps>>
    /\ UNCHANGED <<virtual_reply_enabled, file, lock, trim, next_id, updates,
                   evictions, last_update>>
    /\ UNCHANGED <<qvars, tvars, pvars, evars>>

\* clear_context line 931 in the executor thread: file_path.unlink removes
\* the file, and what an open dump still writes goes to the unlinked file.
\* The coroutine goes on when the event loop next runs it.
ClearUnlink ==
    /\ cpc["m"] = "clear_unlink"
    /\ file' = NoFile
    /\ dumps' = [t \in Tasks |->
                    IF dumps[t].state = "off" THEN dumps[t]
                    ELSE [dumps[t] EXCEPT !.lost = TRUE]]
    /\ cpc' = [cpc EXCEPT !["m"] = "clear_remove"]
    /\ UNCHANGED <<virtual_reply_enabled, context_cache, cache_status, lock,
                   op, trim, next_id, updates, commands, evictions,
                   last_update>>
    /\ UNCHANGED <<qvars, tvars, pvars, evars>>

\* clear_context lines 933-945 after the unlink: the cache entry is removed
\* under the lock and the call returns success.
ClearUnlinked ==
    /\ cpc["m"] = "clear_remove"
    /\ lock = "-"
    /\ context_cache' = <<>>
    /\ cache_status' = NotCached
    /\ dumps' = Detach(dumps)
    /\ cpc' = [cpc EXCEPT !["m"] = "idle"]
    /\ op' = NoOp
    /\ UNCHANGED <<virtual_reply_enabled, file, lock, trim, next_id, updates,
                   commands, evictions, last_update>>
    /\ UNCHANGED <<qvars, tvars, pvars, evars>>

\* get_custom_prompt lines 823-832 and the other readers of get_context:
\* the context is read, and loaded or created when it is not cached.
ViewBegin ==
    /\ ConsumerIdle
    /\ commands < MaxCommands
    /\ commands' = commands + 1
    /\ op' = IF MustLoad THEN [NoOp EXCEPT !.kind = "view"] ELSE NoOp
    /\ GetContext("idle")
    /\ UNCHANGED <<virtual_reply_enabled, file, trim, dumps, next_id, updates,
                   evictions, last_update>>
    /\ UNCHANGED <<qvars, tvars, pvars, evars>>

\* _cleanup_daemon lines 99-113 for a chat found inactive: a dirty context
\* is saved first (_save_context_if_dirty), a clean one is removed from the
\* cache at once.
DaemonScan ==
    /\ cpc["d"] = "idle"
    /\ EventLoopFree
    /\ lock = "-"
    /\ evictions < MaxEvictions
    /\ cache_status.cached
    /\ evictions' = evictions + 1
    /\ IF cache_status.is_dirty
       THEN /\ dumps' = StartDump(dumps, "d")
            /\ file' = Truncated
            /\ cpc' = [cpc EXCEPT !["d"] = "d_save"]
            /\ UNCHANGED <<context_cache, cache_status>>
       ELSE /\ context_cache' = <<>>
            /\ cache_status' = NotCached
            /\ dumps' = Detach(dumps)
            /\ UNCHANGED <<file, cpc>>
    /\ UNCHANGED <<virtual_reply_enabled, lock, op, trim, next_id, updates,
                   commands, last_update>>
    /\ UNCHANGED <<qvars, tvars, pvars, evars>>

\* _save_context_to_file lines 174-179 and _cleanup_daemon line 113: the
\* daemon's dump has ended, the file is closed, the dirty flag cleared and
\* the chat removed from the cache.  (The lock is held across a suspension
\* only by the load of get_context; the chat is not cached then and the
\* daemon has no dump of it to close, so the lock is free here.)
DaemonClose ==
    /\ cpc["d"] = "d_save"
    /\ EventLoopFree
    /\ lock = "-"
    /\ dumps["d"].state = "end"
    /\ file' = CloseFile("d")
    /\ context_cache' = <<>>
    /\ cache_status' = NotCached
    /\ dumps' = Detach([dumps EXCEPT !["d"] = NoDump])
    /\ cpc' = [cpc EXCEPT !["d"] = "idle"]
    /\ UNCHANGED <<virtual_reply_enabled, lock, op, trim, next_id, updates,
                   commands, evictions, last_update>>
    /\ UNCHANGED <<qvars, tvars, pvars, evars>>

\* The executor thread of a dump (json.dump, _save_context_to_file line
\* 173): the encoder walks the message list by index and writes the next
\* message, or finds the end of the list.  The steps of the thread are told
\* apart while update_context runs on the list the thread reads.
DumpStep(t) ==
    LET d == dumps[t] IN
    /\ d.state = "run"
    /\ d.live
    /\ ~EventLoopFree
    /\ dumps' = [dumps EXCEPT ![t] =
                    IF d.pos < Len(context_cache)
                    THEN [d EXCEPT !.pos = @ + 1,
                                   !.out = Append(@, context_cache[d.pos + 1])]
                    ELSE [d EXCEPT !.state = "end"]]
    /\ UNCHANGED <<virtual_reply_enabled, context_cache, cache_status, file,
                   lock, cpc, op, trim, next_id, updates, commands, evictions,
                   last_update>>
    /\ UNCHANGED <<qvars, tvars, pvars, evars>>

\* The same thread while nothing changes the list it reads (the event loop
\* is outside update_context, or the cache has dropped the object): the
\* rest of the list is written and the end found.
DumpRest(t) ==
    LET d == dumps[t]
        src == IF d.live THEN context_cache ELSE d.src
    IN
    /\ d.state = "run"
    /\ ~d.live \/ EventLoopFree
    /\ dumps' = [dumps EXCEPT ![t] =
                    [d EXCEPT !.pos = Len(src),
                              !.out = @ \o SubSeq(src, d.pos + 1, Len(src)),
                              !.state = "end"]]
    /\ UNCHANGED <<virtual_reply_enabled, context_cache, cache_status, file,
                   lock, cpc, op, trim, next_id, updates, commands, evictions,
                   last_update>>
    /\ UNCHANGED <<qvars, tvars, pvars, evars>>

CNext ==
    \/ \E role \in {"user", "assistant"} : UpdateBegin(role)
    \/ GetContextLoaded
    \/ UpdateAppend
    \/ UpdateVirtual
    \/ TrimStep
    \/ UpdateMark
    \/ \E kind \in {"set", "delete"} : MutateBegin(kind)
    \/ MutateSaved1
    \/ MutateLoaded
    \/ MutateSaved2
    \/ ClearBegin
    \/ ClearUnlink
    \/ ClearUnlinked
    \/ ViewBegin
    \/ DaemonScan
    \/ DaemonClose
    \/ \E t \in Tasks : DumpStep(t)
    \/ \E t \in Tasks : DumpRest(t)

InitCtx == CInit /\ QParked /\ TParked /\ PParked /\ EParked

SpecCtx == InitCtx /\ [][CNext]_vars

(***************************************************************************)
(* SpecCtxStop: the context store while the agent core stops.              *)
(* AgentCore.stop first shuts the queue manager down, which cancels the    *)
(* message consumer at whatever suspension point it has reached, and then  *)
(* calls ContextManager.shutdown.                                          *)
(***************************************************************************)
\* The states in which the message consumer is suspended (in queue.get, in
\* a load, in a save, in an unlink): CancelledError is raised there.
Suspended ==
    {"idle", "load", "mut_save1", "mut_load", "mut_save2", "clear_unlink",
     "clear_remove"}

\* The file after task t was cancelled inside the with block of
\* _save_context_to_file (lines 170-174): the block closes the file; a dump
\* that had written everything leaves a whole file, any other leaves the
\* truncated one.
FileAfterCancel(t) ==
    IF dumps[t].state = "end" THEN CloseFile(t) ELSE file

\* QueueManager.shutdown lines 419-425 for the message consumer of the chat:
\* the task is cancelled and ends (CancelledError is no Exception, so no
\* handler of update_context or of the consumer loop keeps it).  A lock
\* taken with "async with" is released; an unlink already handed to the
\* executor still happens.
ConsumerCancelled ==
    /\ cpc["s"] = "idle"
    /\ cpc["m"] \in Suspended
    /\ cpc' = [cpc EXCEPT !["m"] = "cancelled"]
    /\ lock' = IF lock = "m" THEN "-" ELSE lock
    /\ IF cpc["m"] = "clear_unlink"
       THEN /\ file' = NoFile
            /\ dumps' = [t \in Tasks |->
                            IF dumps[t].state = "off" THEN dumps[t]
                            ELSE [dumps[t] EXCEPT !.lost = TRUE]]
       ELSE /\ file' = FileAfterCancel("m")
            /\ dumps' = [dumps EXCEPT !["m"] = NoDump]
    /\ op' = NoOp
    /\ trim' = NoTrim
    /\ UNCHANGED <<virtual_reply_enabled, context_cache, cache_status, next_id,
                   updates, commands, evictions, last_update>>
    /\ UNCHANGED <<qvars, tvars, pvars, evars>>

\* ContextManager.shutdown lines 987-1003 up to its first suspension that
\* lasts: the cleanup daemon is cancelled (inside a save its file is closed
\* as by FileAfterCancel and the dirty flag stays), the lock is taken, and
\* the save of a dirty context starts while the lock is held.
ShutdownBegin ==
    LET closed == IF dumps["d"].state = "off" THEN file ELSE FileAfterCancel("d")
        ds == [dumps EXCEPT !["d"] = NoDump]
    IN
    /\ cpc["s"] = "idle"
    /\ cpc["m"] = "cancelled"
    /\ lock = "-"
    /\ IF cache_status.cached /\ cache_status.is_dirty
       THEN /\ lock' = "s"
            /\ dumps' = StartDump(ds, "s")
            /\ file' = Truncated
            /\ cpc' = [cpc EXCEPT !["d"] = "cancelled", !["s"] = "s_save"]
       ELSE /\ lock' = "-"
            /\ dumps' = ds
            /\ file' = closed
            /\ cpc' = [cpc EXCEPT !["d"] = "cancelled", !["s"] = "done"]
    /\ UNCHANGED <<virtual_reply_enabled, context_cache, cache_status, op,
                   trim, next_id, updates, commands, evictions, last_update>>
    /\ UNCHANGED <<qvars, tvars, pvars, evars>>

\* _save_context_to_file lines 174-177 inside shutdown: the dump has ended
\* and the file is closed; "async with self.lock" at line 177 then waits
\* for the lock that shutdown itself took at line 1000.
ShutdownSaved ==
    /\ cpc["s"] = "s_save"
    /\ dumps["s"].state = "end"
    /\ file' = CloseFile("s")
    /\ dumps' = [dumps EXCEPT !["s"] = NoDump]
    /\ cpc' = [cpc EXCEPT !["s"] = "s_lock"]
    /\ UNCHANGED <<virtual_reply_enabled, context_cache, cache_status, lock,
                   op, trim, next_id, updates, commands, evictions,
                   last_update>>
    /\ UNCHANGED <<qvars, tvars, pvars, evars>>

CStopNext ==
    \/ CNext
    \/ ConsumerCancelled
    \/ ShutdownBegin
    \/ ShutdownSaved

\* The event loop and the executor threads are fair: a task or thread that
\* can go on does.
SpecCtxStop == InitCtx /\ [][CStopNext]_vars /\ WF_vars(CStopNext)

\* ContextManager.shutdown has been called / has returned.
ShutdownStarted == cpc["s"] # "idle"
ShutdownReturned == cpc["s"] = "done"

\* C17: once the shutdown of the context store has started it eventually
\* returns, and then no cached context is left dirty: what was dirty is in
\* the chat's file.
C17_ShutdownCompletes ==
    ShutdownStarted ~>
        (/\ ShutdownReturned
         /\ cache_status.cached =>
               \/ ~cache_status.is_dirty
               \/ LoadContextFromFile(file) = context_cache)

(***************************************************************************)
(* Properties of SpecCtx.                                                  *)
(***************************************************************************)
\* The chat's context as another task can observe it: the event loop is
\* not inside the run of update_context and the chat is cached.
Observable == EventLoopFree /\ cache_status.cached

\* C4: at every point where another task can observe the context, it holds
\* at most max_user_messages_per_chat user messages.
C4_UserCountWithinLimit ==
    Observable => UserCount(context_cache) <= MaxUserMessages

\* An assistant or tool message with no user message anywhere before it.
Orphan(messages, i) ==
    /\ messages[i].role \in {"assistant", "tool"}
    /\ \A j \in 1 .. (i - 1) : messages[j].role # "user"

\* C5: after any sequence of updates the context has no assistant or tool
\* message that is not preceded by a user message.
C5_NoOrphanReplies ==
    Observable => \A i \in 1 .. Len(context_cache) : ~Orphan(context_cache, i)

\* What update_context appended to the context it found.
Appended(u) ==
    IF u.entry.role = "user" /\ virtual_reply_enabled
    THEN u.pre \o <<u.entry, Msg("assistant", u.entry.id)>>
    ELSE Append(u.pre, u.entry)

\* The oldest dialogue round: from the first user message up to, and not
\* including, the next one.
FirstUser(messages) ==
    CHOOSE i \in 1 .. Len(messages) :
        /\ messages[i].role = "user"
        /\ \A j \in 1 .. (i - 1) : messages[j].role # "user"
NextUser(messages, i) ==
    CHOOSE e \in (i + 1) .. (Len(messages) + 1) :
        /\ \A k \in (i + 1) .. (e - 1) : messages[k].role # "user"
        /\ e = Len(messages) + 1 \/ messages[e].role = "user"
WithoutOldestRound(messages) ==
    DeleteRange(messages, FirstUser(messages),
                NextUser(messages, FirstUser(messages)))

\* C6: an update that leaves at most max_user_messages_per_chat user
\* messages removes nothing; an update that brings the count to one more
\* removes exactly the oldest dialogue round and nothing else.
C6_TrimRemovesOldestRound ==
    last_update.done =>
        LET appended == Appended(last_update) IN
        /\ UserCount(appended) <= MaxUserMessages =>
              last_update.post = appended
        /\ UserCount(appended) = MaxUserMessages + 1 =>
              last_update.post = WithoutOldestRound(appended)

\* The step in which the cleanup daemon removes the chat from the cache:
\* at once for a clean context (DaemonScan), after its save for a dirty one
\* (DaemonClose).
DaemonDrops ==
    /\ cache_status.cached
    /\ \/ evictions' # evictions /\ ~cache_status'.cached
       \/ cpc["d"] = "d_save" /\ cpc'["d"] = "idle"

\* The message is one of the messages.
Holds(messages, msg) == \E j \in 1 .. Len(messages) : messages[j] = msg

\* C20: eviction never loses data: when the daemon drops the chat from the
\* cache, the chat's file, which the next get loads, holds every message of
\* the context that is dropped, and so every message that an update which
\* has returned left in it.
C20_EvictionKeepsData ==
    [][DaemonDrops =>
          \A i \in 1 .. Len(context_cache) :
              Holds(LoadContextFromFile(file'), context_cache[i])]_vars

\* C7: the first message of the cached context and of the persisted
\* context is the system message, in every state: no update, trim or
\* prompt mutator removes it or puts a message in front of it.
C7_SystemMessageFirst ==
    /\ cache_status.cached =>
          /\ context_cache # <<>>
          /\ context_cache[1].role = "system"
    /\ file.kind = "json" =>
          /\ file.messages # <<>>
          /\ file.messages[1].role = "system"
    /\ \A t \in Tasks : dumps[t].out # <<>> => dumps[t].out[1].role = "system"

\* The context was trimmed by its last update, carries a custom prompt set
\* by a mutator, and is in the cache and in the file.
C7_Witness ==
    /\ last_update.done
    /\ Len(last_update.post) < Len(Appended(last_update))
    /\ cache_status.cached
    /\ context_cache[1].custom
    /\ UserCount(context_cache) = MaxUserMessages
    /\ file.kind = "json"
    /\ file.messages[1].custom

(***************************************************************************)
(* Further properties of SpecCtx.                                          *)
(***************************************************************************)
\* A prompt mutator (update_custom_prompt, delete_custom_prompt) is between
\* its first save and its return; the cleanup daemon is between the start
\* of its save and the removal from the cache.
MutatorRunning == cpc["m"] \in {"mut_save1", "mut_load", "mut_save2"}
DaemonEvicting == cpc["d"] = "d_save"

\* C21: the mutators of the context store and the eviction daemon exclude
\* one another: while a mutator runs its save, evict, reload, edit and
\* write-through steps on the chat, the daemon is not inside its own save
\* and evict of the same chat.
C21_MutatorsExclusive == ~(MutatorRunning /\ DaemonEvicting)

(***************************************************************************)
(* SpecPrompt: the prompt commands on the system message of one chat.      *)
(* #设定提示词 hands " ".join(args) to update_custom_prompt                *)
(* (essentials_manager.py line 383), args being the words that split()     *)
(* found after the command: a prompt is one or more words separated by     *)
(* single blanks.                                                          *)
(***************************************************************************)
\* Letters of a word and words of a prompt.
MaxWordLen == 2
MaxWords == 2

Words == UNION {[1 .. n -> Letters] : n \in 1 .. MaxWordLen}

\* " ".join(args)
RECURSIVE Join(_)
Join(args) ==
    IF Len(args) = 1 THEN args[1]
    ELSE args[1] \o <<" ">> \o Join(Tail(args))

Prompts == {Join(args) : args \in UNION {[1 .. n -> Words] : n \in 1 .. MaxWords}}

\* update_custom_prompt: the system message gets the prompt in front of the
\* core prompt.
UpdateCustomPrompt(prompt_content) ==
    /\ system_content' = FullPrompt(prompt_content, core_prompt)
    /\ last_prompt_op' = [kind |-> "set", content |-> prompt_content]
    /\ prompt_result' = NoPromptResult
    /\ UNCHANGED core_prompt
    /\ UNCHANGED <<qvars, tvars, cvars, pvars, modelvars, cmdvars, turnvars, xvars>>

\* delete_custom_prompt: the system message keeps the core prompt only.
DeleteCustomPrompt ==
    /\ system_content' = core_prompt
    /\ last_prompt_op' = [kind |-> "delete", content |-> <<>>]
    /\ prompt_result' = NoPromptResult
    /\ UNCHANGED core_prompt
    /\ UNCHANGED <<qvars, tvars, cvars, pvars, modelvars, cmdvars, turnvars, xvars>>

\* get_custom_prompt
GetCustomPrompt ==
    /\ prompt_result' = ExtractCustomPrompt(system_content, core_prompt)
    /\ UNCHANGED <<core_prompt, system_content, last_prompt_op>>
    /\ UNCHANGED <<qvars, tvars, cvars, pvars, modelvars, cmdvars, turnvars, xvars>>

PromptNext ==
    \/ \E x \in Prompts : UpdateCustomPrompt(x)
    \/ DeleteCustomPrompt
    \/ GetCustomPrompt

InitPrompt ==
    /\ \E core \in Cores : EStart(core)
    /\ QParked /\ TParked /\ CParked /\ PParked /\ MParked /\ CmdParked /\ TurnParked /\ XParked

SpecPrompt == InitPrompt /\ [][PromptNext]_vars

\* C22: get_custom_prompt after update_custom_prompt(X) returns X and
\* has_custom_prompt true, whatever X has to do with the core prompt, and
\* after delete_custom_prompt it returns the empty prompt and false.
C22_PromptRoundTrip ==
    prompt_result # NoPromptResult =>
        /\ last_prompt_op.kind = "set" =>
               prompt_result = [custom_prompt |-> last_prompt_op.content,
                                has_custom_prompt |-> TRUE]
        /\ last_prompt_op.kind = "delete" =>
               prompt_result = [custom_prompt |-> <<>>,
                                has_custom_prompt |-> FALSE]

(***************************************************************************)
(* SpecModel: update_model (#模型更换) and get_context on one chat, next   *)
(* to the cleanup daemon.  The suspension points of update_model are the   *)
(* two json.dump and the json.load it hands to executor threads; the       *)
(* daemon suspends in its own json.dump.                                   *)
(***************************************************************************)
\* Messages of the chat's context, calls of update_model and rounds of the
\* daemon in one behaviour.
MaxStoredMessages == 1
MaxModelSets == 2
MaxModelEvictions == 1

\* _save_context_to_file lines 158-174: the cached object is picked, the
\* file is opened for writing (and is empty from then on) and json.dump
\* starts in an executor thread.
ModelStartDump(t) ==
    /\ model_dumps' = [model_dumps EXCEPT ![t] =
           [state |-> "run", model |-> model_cache.model, n |-> model_cache.n]]
    /\ model_file' = [kind |-> "partial", model |-> "-", n |-> 0]

\* The file when the dump of task t is closed: its text, unless a longer
\* text was written by a dump that was open at the same time and closed
\* before; then the tail of that text stays and the file does not parse.
ModelCloseFile(t) ==
    IF model_file.kind = "json" /\ model_dumps[t].n < model_file.n
    THEN [kind |-> "partial", model |-> "-", n |-> 0]
    ELSE [kind |-> "json", model |-> model_dumps[t].model, n |-> model_dumps[t].n]

\* _save_context_to_file lines 176-178: is_dirty is cleared on whatever
\* entry the chat has in cache_status.
ClearDirty(cache) == [cache EXCEPT !.is_dirty = FALSE]

\* _load_context_from_file, and _ensure_default_context when it gives None
\* (update_model lines 585-587).
ModelLoadOrDefault(f) ==
    IF f.kind = "json" THEN [model |-> f.model, n |-> f.n]
    ELSE [model |-> DefaultModel, n |-> 0]

\* update_model line 590.
SetModel(context, m) == [context EXCEPT !.model = m]

\* update_model lines 590-599: the loaded context gets the model, goes to
\* the cache as dirty, and its save starts.
ModelEditAndSave(context, m) ==
    LET edited == SetModel(context, m)
    IN /\ model_cache' = [cached |-> TRUE, is_dirty |-> TRUE,
                          model |-> edited.model, n |-> edited.n]
       /\ model_dumps' = [model_dumps EXCEPT !["m"] =
              [state |-> "run", model |-> edited.model, n |-> edited.n]]
       /\ model_file' = [kind |-> "partial", model |-> "-", n |-> 0]
       /\ model_pc' = [model_pc EXCEPT !["m"] = "save2"]

Snapshot(cache, f) == [model |-> cache.model, n |-> cache.n, file |-> f]

\* update_model is called (lines 581-599 up to its first suspension).  A
\* dirty cached context is saved first; otherwise the cache entry is
\* removed and the file is loaded, and without a file the default context
\* is edited at once.
UpdateModelBegin(m) ==
    /\ model_pc["m"] = "idle"
    /\ model_calls_made < MaxModelSets
    /\ model_calls_made' = model_calls_made + 1
    /\ model_name' = m
    /\ model_got' = "-"
    /\ IF model_cache.cached /\ model_cache.is_dirty
       THEN /\ ModelStartDump("m")
            /\ model_pc' = [model_pc EXCEPT !["m"] = "save1"]
            /\ UNCHANGED model_cache
       ELSE IF model_file.kind = "absent"
       THEN ModelEditAndSave(ModelLoadOrDefault(model_file), m)
       ELSE /\ model_cache' = NoModelContext
            /\ model_pc' = [model_pc EXCEPT !["m"] = "load"]
            /\ UNCHANGED <<model_file, model_dumps>>
    /\ UNCHANGED <<evicted, model_set, model_first, model_repeat>>
    /\ UNCHANGED <<qvars, tvars, cvars, pvars, promptvars, cmdvars, turnvars, xvars>>

\* The first save returns (lines 176-178 and 582-585): is_dirty is cleared,
\* the cache entry is removed and the load of the file starts.
UpdateModelSaved1 ==
    /\ model_pc["m"] = "save1"
    /\ model_file' = ModelCloseFile("m")
    /\ model_dumps' = [model_dumps EXCEPT !["m"] = NoModelDump]
    /\ model_cache' = NoModelContext
    /\ model_pc' = [model_pc EXCEPT !["m"] = "load"]
    /\ UNCHANGED <<model_name, evicted, model_calls_made, model_set, model_got,
                   model_first, model_repeat>>
    /\ UNCHANGED <<qvars, tvars, cvars, pvars, promptvars, cmdvars, turnvars, xvars>>

\* The load returns (lines 585-599).
UpdateModelLoaded ==
    /\ model_pc["m"] = "load"
    /\ ModelEditAndSave(ModelLoadOrDefault(model_file), model_name)
    /\ UNCHANGED <<model_name, evicted, model_calls_made, model_set, model_got,
                   model_first, model_repeat>>
    /\ UNCHANGED <<qvars, tvars, cvars, pvars, promptvars, cmdvars, turnvars, xvars>>

\* The second save returns and update_model with it (lines 176-178 and
\* 601-606).
UpdateModelSaved2 ==
    LET f == ModelCloseFile("m")
        cache == IF model_cache.cached THEN ClearDirty(model_cache) ELSE model_cache
    IN /\ model_pc["m"] = "save2"
       /\ model_file' = f
       /\ model_dumps' = [model_dumps EXCEPT !["m"] = NoModelDump]
       /\ model_cache' = cache
       /\ model_pc' = [model_pc EXCEPT !["m"] = "idle"]
       /\ model_set' = model_name
       /\ model_got' = "-"
       /\ model_first' = Snapshot(cache, f)
       /\ model_repeat' = IF model_first # NoSnapshot /\ model_set = model_name
                          THEN [first |-> model_first, second |-> Snapshot(cache, f)]
                          ELSE NoRepeat
       /\ UNCHANGED <<model_name, evicted, model_calls_made>>
       /\ UNCHANGED <<qvars, tvars, cvars, pvars, promptvars, cmdvars, turnvars, xvars>>

\* get_context lines 267-316, called when no command runs: the cached
\* context, else the context of the file, else a default context.
ModelGetContext ==
    /\ model_pc["m"] = "idle"
    /\ model_set # "-"
    /\ IF model_cache.cached
       THEN /\ model_got' = model_cache.model
            /\ UNCHANGED model_cache
       ELSE LET context == ModelLoadOrDefault(model_file)
            IN /\ model_cache' = [cached |-> TRUE,
                                  is_dirty |-> model_file.kind # "json",
                                  model |-> context.model, n |-> context.n]
               /\ model_got' = context.model
    /\ UNCHANGED <<model_file, model_dumps, model_pc, model_name, evicted,
                   model_calls_made, model_set, model_first, model_repeat>>
    /\ UNCHANGED <<qvars, tvars, cvars, pvars, promptvars, cmdvars, turnvars, xvars>>

\* _cleanup_daemon lines 103-108: the scan picks the chat when its entry
\* has not been accessed for cache_inactive_unload_seconds.  The entry
\* that a running update_model has just put has the current time.
ModelDaemonScan ==
    /\ model_pc["d"] = "idle"
    /\ evicted < MaxModelEvictions
    /\ model_cache.cached
    /\ model_pc["m"] # "save2"
    /\ evicted' = evicted + 1
    /\ model_pc' = [model_pc EXCEPT !["d"] = "picked"]
    /\ UNCHANGED <<model_cache, model_file, model_dumps, model_name,
                   model_calls_made, model_set, model_got, model_first, model_repeat>>
    /\ UNCHANGED <<qvars, tvars, cvars, pvars, promptvars, cmdvars, turnvars, xvars>>

\* _cleanup_daemon lines 111-114: the daemon comes to the chat, after the
\* saves of the chats it picked before it.  A dirty context is saved
\* first, anything else is removed from the cache at once.
ModelDaemonUnload ==
    /\ model_pc["d"] = "picked"
    /\ IF model_cache.cached /\ model_cache.is_dirty
       THEN /\ ModelStartDump("d")
            /\ model_pc' = [model_pc EXCEPT !["d"] = "d_save"]
            /\ UNCHANGED model_cache
       ELSE /\ model_cache' = NoModelContext
            /\ model_pc' = [model_pc EXCEPT !["d"] = "idle"]
            /\ UNCHANGED <<model_file, model_dumps>>
    /\ model_first' = NoSnapshot
    /\ UNCHANGED <<model_name, evicted, model_calls_made, model_set, model_got,
                   model_repeat>>
    /\ UNCHANGED <<qvars, tvars, cvars, pvars, promptvars, cmdvars, turnvars, xvars>>

\* The daemon's save returns, and the daemon removes the chat's entry from
\* the cache (lines 176-178, 113-114).
ModelDaemonSaved ==
    /\ model_pc["d"] = "d_save"
    /\ model_file' = ModelCloseFile("d")
    /\ model_dumps' = [model_dumps EXCEPT !["d"] = NoModelDump]
    /\ model_cache' = NoModelContext
    /\ model_pc' = [model_pc EXCEPT !["d"] = "idle"]
    /\ model_first' = NoSnapshot
    /\ UNCHANGED <<model_name, evicted, model_calls_made, model_set, model_got,
                   model_repeat>>
    /\ UNCHANGED <<qvars, tvars, cvars, pvars, promptvars, cmdvars, turnvars, xvars>>

ModelNext ==
    \/ \E m \in ModelNames : UpdateModelBegin(m)
    \/ UpdateModelSaved1
    \/ UpdateModelLoaded
    \/ UpdateModelSaved2
    \/ ModelGetContext
    \/ ModelDaemonScan
    \/ ModelDaemonUnload
    \/ ModelDaemonSaved

\* The contexts a chat can have when the command arrives: none; a file and
\* no cache entry; a file and its clean copy in the cache; a dirty cache
\* entry that is a new default context or has messages the file has not.
StoredContexts ==
    {[kind |-> "json", model |-> m, n |-> n] :
        m \in ModelNames, n \in 0 .. MaxStoredMessages}

InitModel ==
    /\ \/ MStart(NoModelContext, NoModelFile)
       \/ \E f \in StoredContexts : MStart(NoModelContext, f)
       \/ \E f \in StoredContexts :
            MStart([cached |-> TRUE, is_dirty |-> FALSE, model |-> f.model, n |-> f.n], f)
       \/ \E n \in 0 .. MaxStoredMessages :
            MStart([cached |-> TRUE, is_dirty |-> TRUE, model |-> DefaultModel, n |-> n],
                   NoModelFile)
       \/ \E f \in StoredContexts : \E n \in f.n .. MaxStoredMessages :
            MStart([cached |-> TRUE, is_dirty |-> TRUE, model |-> f.model, n |-> n], f)
    /\ EStart(<<"k">>) /\ CmdParked /\ TurnParked /\ XParked
    /\ QParked /\ TParked /\ CParked /\ PParked

SpecModel == InitModel /\ [][ModelNext]_vars

\* C23: once update_model(chat, m) has returned, get_context reports the
\* model m, and an update_model(chat, m) that follows a first one leaves
\* the cached context and the file as they were after the first.
C23_SetModelIdempotent ==
    /\ model_got # "-" => model_got = model_set
    /\ model_repeat.first = model_repeat.second

(***************************************************************************)
(* SpecCommand: one message at a time through workflow A or B of           *)
(* TaskManager and the result callback of AgentCore.                       *)
(***************************************************************************)
\* Tokens of a message text.
MaxTextLen == 3

Tokens == {"#", " ", "help", "reload", "hot_reload", "hi"}
Texts == UNION {[1 .. n -> Tokens] : n \in 0 .. MaxTextLen}

\* _extract_message_content / update_context lines 457-462: a string
\* content is taken as it is, and an empty one is refused.
UpdateContextOutcome(text) == IF text = <<>> THEN "failed" ELSE "updated"

\* AgentCore._handle_result lines 270-279: a result labelled A with a
\* response is sent to the frontend, a result labelled B goes to the rules
\* manager, which goes on with the successful ones (rules_manager.py lines
\* 60-66).
HandleResult(result) ==
    /\ sent_to_frontend' = (result.workflow_type = "A" /\ result.response # NoCommandResponse)
    /\ sent_to_rules' = (result.workflow_type = "B" /\ result.success)

\* _workflow_b lines 139-240 and the callback on its result.
WorkflowB(chat_id, text, ok) ==
    /\ wf_message = NoMessage
    /\ wf_message' = [workflow |-> "B", chat_id |-> chat_id, text |-> text]
    /\ IF IsCommand(text)
       THEN LET command_result == ExecuteCommand(chat_id, text, ok)
                result == [workflow_type |-> "A", is_command |-> TRUE,
                           success |-> TRUE, response |-> command_result]
            IN /\ handler_run' = command_result.handler
               /\ context_update' = "-"
               /\ session_created' = FALSE
               /\ wf_result' = result
               /\ HandleResult(result)
       ELSE LET updated == UpdateContextOutcome(text)
                session == updated = "updated" /\ ok
                result == [workflow_type |-> "B", is_command |-> FALSE,
                           success |-> session, response |-> NoCommandResponse]
            IN /\ handler_run' = "-"
               /\ context_update' = updated
               /\ session_created' = session
               /\ wf_result' = result
               /\ HandleResult(result)
    /\ UNCHANGED admin_chats
    /\ UNCHANGED <<qvars, tvars, cvars, pvars, promptvars, modelvars, turnvars, xvars>>

\* _workflow_a lines 82-137 and the callback on its result: the context is
\* updated first, then a command is executed.
WorkflowA(chat_id, text, ok) ==
    LET command_result == ExecuteCommand(chat_id, text, ok)
        result == [workflow_type |-> "A", is_command |-> IsCommand(text),
                   success |-> TRUE,
                   response |-> IF IsCommand(text) THEN command_result ELSE NoCommandResponse]
    IN /\ wf_message = NoMessage
       /\ wf_message' = [workflow |-> "A", chat_id |-> chat_id, text |-> text]
       /\ context_update' = UpdateContextOutcome(text)
       /\ handler_run' = IF IsCommand(text) THEN command_result.handler ELSE "-"
       /\ session_created' = FALSE
       /\ wf_result' = result
       /\ HandleResult(result)
       /\ UNCHANGED admin_chats
       /\ UNCHANGED <<qvars, tvars, cvars, pvars, promptvars, modelvars, turnvars, xvars>>

\* The consumer of the chat's message queue is done with the message
\* (queue_manager.py, task_done) and turns to the next one.
MessageDone ==
    /\ wf_message # NoMessage
    /\ wf_message' = NoMessage
    /\ wf_result' = NoResult
    /\ handler_run' = "-"
    /\ context_update' = "-"
    /\ session_created' = FALSE
    /\ sent_to_frontend' = FALSE
    /\ sent_to_rules' = FALSE
    /\ UNCHANGED admin_chats
    /\ UNCHANGED <<qvars, tvars, cvars, pvars, promptvars, modelvars, turnvars, xvars>>

CommandNext ==
    \/ \E chat_id \in Chats, text \in Texts, ok \in BOOLEAN :
        \/ WorkflowB(chat_id, text, ok)
        \/ WorkflowA(chat_id, text, ok)
    \/ MessageDone

InitCommand ==
    /\ \E admins \in SUBSET Chats : CmdStart(admins)
    /\ EStart(<<"k">>) /\ MParked /\ TurnParked /\ XParked
    /\ QParked /\ TParked /\ CParked /\ PParked

SpecCommand == InitCommand /\ [][CommandNext]_vars

\* The command a text names, when it names one of the table.
KnownCommand(text) ==
    /\ IsCommand(text)
    /\ ParseCommand(text).command \in DOMAIN command_handlers
\* The text has the command prefix in front, after white space at most.
PrefixFirst(text) ==
    \E i \in 1 .. Len(text) :
        text[i] = "#" /\ \A j \in 1 .. i - 1 : text[j] \in {" ", "\n"}
\* Workflow B returned without going on: the result is labelled A, and no
\* context was updated, no session created and nothing handed on for a
\* model call.
ShortCircuited ==
    /\ wf_result.workflow_type = "A"
    /\ context_update = "-"
    /\ ~session_created
    /\ ~sent_to_rules
\* Workflow B went on to update_context, and to create_session when that
\* gave a context.
WentOn ==
    /\ wf_result.workflow_type = "B"
    /\ context_update # "-"
    /\ session_created => context_update = "updated"

\* C24: workflow B short-circuits exactly the messages that are known
\* commands (result labelled A, no session, no model call); every other
\* message goes on to the context update and the session creation.
C24_ShortCircuitKnownCommands ==
    wf_message.workflow = "B" =>
        IF KnownCommand(wf_message.text) THEN ShortCircuited ELSE WentOn

\* C24 as the code has it: workflow B short-circuits exactly the messages
\* whose text has the command prefix in front, a known command or not;
\* every other message goes on to the context update and, when that
\* succeeds, to the session creation.
C24_ShortCircuitPrefixed ==
    wf_message.workflow = "B" =>
        IF PrefixFirst(wf_message.text) THEN ShortCircuited ELSE WentOn

C24_Witness ==
    /\ wf_message.workflow = "B"
    /\ PrefixFirst(wf_message.text)
    /\ ~KnownCommand(wf_message.text)
    /\ ShortCircuited
    /\ sent_to_frontend

\* C28: the tool reload (重载, 热重载) is executed only for a chat_id of
\* the admin list; a common command is executed for every chat_id; and an
\* unknown command name gets a failure response and no handler is
\* executed.
C28_ReloadAdminOnly ==
    LET parsed == ParseCommand(wf_message.text) IN
    wf_message # NoMessage =>
        /\ handler_run = "_handle_reload" => wf_message.chat_id \in admin_chats
        /\ parsed.command \in common_commands =>
               handler_run = command_handlers[parsed.command]
        /\ (parsed # NoCommand /\ parsed.command \notin DOMAIN command_handlers) =>
               /\ handler_run = "-"
               /\ wf_result.response # NoCommandResponse
               /\ ~wf_result.response.success

C28_Witness ==
    /\ handler_run = "_handle_reload"
    /\ ParseCommand(wf_message.text).command = <<"hot_reload">>
    /\ admin_chats # Chats

\* C25: for a message that is no command and asks for no response,
\* workflow A leaves the context with that user message as its last
\* message (update_context has returned), and nothing is sent to a
\* frontend, no session is created and nothing goes on to a model call.
C25_AmbientMessageLast ==
    /\ (last_update.done /\ last_update.entry.role = "user") =>
           /\ last_update.post # <<>>
           /\ last_update.post[Len(last_update.post)] = last_update.entry
    /\ (wf_message.workflow = "A" /\ ~IsCommand(wf_message.text)) =>
           ~sent_to_frontend /\ ~session_created /\ ~sent_to_rules

(***************************************************************************)
(* SpecTurn: the turns of one chat.  The chat's message consumer takes the *)
(* tasks of the message queue one by one (workflow A or B), its model      *)
(* consumer the tasks of the model queue (workflow C, rules mode wait),    *)
(* and the result callback of AgentCore sends the reply to the frontend    *)
(* and enqueues its write-back on the message queue.                       *)
(***************************************************************************)
\* Frontend messages of the chat in one behaviour.
MaxTurnArrivals == 3

UserTask(id, is_respond) == [kind |-> "user", id |-> id, is_respond |-> is_respond]
ReplyTask(id) == [kind |-> "reply", id |-> id, is_respond |-> FALSE]
Entry(role, id, virtual) == [role |-> role, id |-> id, virtual |-> virtual]

\* update_context lines 444-480: a write-back appends the assistant
\* message; a user message is appended and, with virtual_reply_enabled,
\* the virtual reply after it.
TurnUpdateContext(context, task) ==
    IF task.kind = "reply"
    THEN Append(context, Entry("assistant", task.id, FALSE))
    ELSE IF turn_virtual
    THEN context \o <<Entry("user", task.id, FALSE), Entry("assistant", task.id, TRUE)>>
    ELSE Append(context, Entry("user", task.id, FALSE))

\* enqueue_message (queue_manager.py lines 80-124) with a message of the
\* frontend.
TurnArrive(is_respond) ==
    /\ turn_arrived < MaxTurnArrivals
    /\ turn_arrived' = turn_arrived + 1
    /\ turn_queue' = Append(turn_queue, UserTask(turn_arrived + 1, is_respond))
    /\ UNCHANGED <<turn_virtual, turn_llm, turn_model, turn_context,
                   turn_frontend, turn_done>>
    /\ UNCHANGED <<qvars, tvars, cvars, pvars, promptvars, modelvars, cmdvars, xvars>>

\* The message consumer takes a task that asks for no response, a
\* write-back among them (_workflow_a lines 82-137): the context is
\* updated.
TurnWorkflowA ==
    /\ turn_queue # <<>>
    /\ ~Head(turn_queue).is_respond
    /\ turn_queue' = Tail(turn_queue)
    /\ turn_context' = TurnUpdateContext(turn_context, Head(turn_queue))
    /\ turn_done' = IF Head(turn_queue).kind = "reply"
                    THEN [id |-> Head(turn_queue).id, context |-> turn_context']
                    ELSE turn_done
    /\ UNCHANGED <<turn_virtual, turn_llm, turn_model, turn_frontend, turn_arrived>>
    /\ UNCHANGED <<qvars, tvars, cvars, pvars, promptvars, modelvars, cmdvars, xvars>>

\* The message consumer takes a task that asks for a response
\* (_workflow_b lines 186-240): the context is updated, a session is
\* created, and the rules manager enqueues workflow C on the model queue
\* (rules_manager.py lines 104-127).
TurnWorkflowB ==
    /\ turn_queue # <<>>
    /\ Head(turn_queue).is_respond
    /\ turn_queue' = Tail(turn_queue)
    /\ turn_context' = TurnUpdateContext(turn_context, Head(turn_queue))
    /\ turn_llm' = Append(turn_llm, Head(turn_queue).id)
    /\ UNCHANGED <<turn_virtual, turn_model, turn_frontend, turn_arrived, turn_done>>
    /\ UNCHANGED <<qvars, tvars, cvars, pvars, promptvars, modelvars, cmdvars, xvars>>

\* The model consumer takes a task and workflow C sends its request to the
\* model.
TurnModelCall ==
    /\ turn_model = 0
    /\ turn_llm # <<>>
    /\ turn_model' = Head(turn_llm)
    /\ turn_llm' = Tail(turn_llm)
    /\ UNCHANGED <<turn_virtual, turn_queue, turn_context, turn_frontend,
                   turn_arrived, turn_done>>
    /\ UNCHANGED <<qvars, tvars, cvars, pvars, promptvars, modelvars, cmdvars, xvars>>

\* The model answers and workflow C succeeds (Agent_core.py lines 281-305
\* and 339-371): the reply is sent to the frontend and its write-back is
\* enqueued on the chat's message queue.
TurnModelReply ==
    /\ turn_model # 0
    /\ turn_frontend' = turn_frontend \cup {turn_model}
    /\ turn_queue' = Append(turn_queue, ReplyTask(turn_model))
    /\ turn_model' = 0
    /\ UNCHANGED <<turn_virtual, turn_llm, turn_context, turn_arrived, turn_done>>
    /\ UNCHANGED <<qvars, tvars, cvars, pvars, promptvars, modelvars, cmdvars, xvars>>

\* The model call fails (Agent_core.py lines 306-317): an error message is
\* sent and nothing is written back.
TurnModelFail ==
    /\ turn_model # 0
    /\ turn_model' = 0
    /\ UNCHANGED <<turn_virtual, turn_queue, turn_llm, turn_context,
                   turn_frontend, turn_arrived, turn_done>>
    /\ UNCHANGED <<qvars, tvars, cvars, pvars, promptvars, modelvars, cmdvars, xvars>>

TurnNext ==
    \/ \E is_respond \in BOOLEAN : TurnArrive(is_respond)
    \/ TurnWorkflowA
    \/ TurnWorkflowB
    \/ TurnModelCall
    \/ TurnModelReply
    \/ TurnModelFail

InitTurn ==
    /\ \E virtual \in BOOLEAN : TurnStart(virtual)
    /\ EStart(<<"k">>) /\ MParked /\ CmdParked /\ XParked
    /\ QParked /\ TParked /\ CParked /\ PParked

SpecTurn == InitTurn /\ [][TurnNext]_vars

\* C26: when a message that asked for a response has gone through
\* workflows B and C and its reply has been written back, the frontend has
\* the reply and the context ends with that user message followed by the
\* assistant reply, whatever else was enqueued for the chat during the
\* model call.
C26_ReplyFollowsMessage ==
    LET context == turn_done.context
        n == Len(context)
    IN turn_done # NoTurn =>
          /\ turn_done.id \in turn_frontend
          /\ n >= 2
          /\ context[n - 1] = Entry("user", turn_done.id, FALSE)
          /\ context[n] = Entry("assistant", turn_done.id, FALSE)

(***************************************************************************)
(* Further properties of Spec.                                             *)
(***************************************************************************)
\* C27: the rules mode is the configured one: with mode "all" configured a
\* successful workflow-B result starts workflow C as a task of its own and
\* no model queue is touched; with mode "wait" configured the workflow-C
\* task goes to the chat's model queue.
C27_ModeFollowsConfig ==
    /\ config_mode = "all" => \A c \in Chats : llm_queues[c] = 0
    /\ config_mode = "wait" => \A c \in Chats : b_count[c] > 0 => llm_queues[c] # 0

(***************************************************************************)
(* SpecEnqueue: Spec with the payloads a frontend may hand to              *)
(* enqueue_message.  A payload is the set of the fields it has; is_respond *)
(* is the value of that field when it is there.                            *)
(***************************************************************************)
Fields == {"chat_id", "is_respond"}
Payloads == SUBSET Fields

\* _validate_task_data lines 171-189.  ValidateTaskDataBasic is the
\* variant without the test that belongs to the queue type.
ValidateTaskDataBasic(task_data, queue_type) ==
    /\ task_data # {}
    /\ "chat_id" \in task_data
ValidateTaskData(task_data, queue_type) ==
    /\ task_data # {}
    /\ "chat_id" \in task_data
    /\ queue_type = "message" => "is_respond" \in task_data

\* enqueue_message lines 80-124: a payload that does not validate gives
\* None at lines 96-98, before a task id, a queue or a consumer is made.
EnqueueMessage(c, task_data, is_respond) ==
    IF is_running /\ ~ValidateTaskData(task_data, "message")
    THEN /\ arrivals < MaxArrivals
         /\ arrivals' = arrivals + 1
         /\ last_enqueue' = [chat |-> c, running |-> TRUE, full |-> FALSE,
                             outcome |-> "null"]
         /\ UNCHANGED <<is_running, message_queues, llm_queues, queues, next_queue,
                        message_consumers, llm_consumers, mcons, lcons, putters,
                        sessions, session_counter, session_lock, stop_pc,
                        dirty_chats, config_mode, parallel_mode, put_count,
                        got_count, done_count, b_count, c_returned>>
         /\ UNCHANGED <<tvars, cvars, pvars, evars>>
    ELSE Arrive(c, "is_respond" \in task_data /\ is_respond)

NextEnqueue ==
    \/ \E c \in Chats, task_data \in Payloads, r \in BOOLEAN :
          EnqueueMessage(c, task_data, r)
    \/ \E p \in putters : PutterResume(p)
    \/ \E c \in Chats : MsgConsumerStart(c)
    \/ \E c \in Chats : MsgGet(c)
    \/ \E c \in Chats : MsgProcessA(c)
    \/ \E c \in Chats : MsgProcessBFail(c)
    \/ \E c \in Chats : MsgSessionWait(c)
    \/ \E c \in Chats : MsgProcessB(c)
    \/ \E c \in Chats : MsgPutResume(c)
    \/ \E c \in Chats : LlmConsumerStart(c)
    \/ \E c \in Chats : LlmGet(c)
    \/ \E c \in Chats : LlmModelText(c)
    \/ \E c \in Chats, a \in {"null", "raise"} : LlmModelFail(c, a)
    \/ \E c \in Chats : LlmPutResume(c)
    \/ \E c \in Chats : LlmSessionWait(c)
    \/ SessionCleanupDaemon

SpecEnqueue == Init /\ [][NextEnqueue]_vars

\* The payload has both fields that enqueue_message asks for.
WellFormed(task_data) == {"chat_id", "is_respond"} \subseteq task_data

\* C29: enqueue_message with a payload that lacks chat_id or is_respond,
\* the empty payload among them, returns null and changes nothing: no task
\* is enqueued, no queue and no consumer is created and no context is
\* touched.
C29_MalformedPayloadRejected ==
    [][\A c \in Chats, task_data \in Payloads, r \in BOOLEAN :
          (EnqueueMessage(c, task_data, r) /\ ~WellFormed(task_data)) =>
              /\ last_enqueue'.outcome = "null"
              /\ UNCHANGED <<message_queues, llm_queues, queues, next_queue,
                             message_consumers, llm_consumers, mcons, lcons,
                             putters, put_count, sessions, dirty_chats>>
              /\ UNCHANGED cvars]_vars

\* A payload was refused while the chat had a queue with a task in it and
\* a consumer.
C29_Witness ==
    /\ last_enqueue.outcome = "null"
    /\ last_enqueue.running
    /\ message_queues[last_enqueue.chat] # 0
    /\ queues[message_queues[last_enqueue.chat]] # <<>>

\* C30: a session that has been idle for session_timeout_minutes is
\* in the end removed from the store by the sweep of the cleanup daemon
\* that finds it expired, and that sweep comes to its end (the daemon
\* gives its lock back).
C30_ExpiredSessionSwept ==
    /\ \A sid \in 1 .. MaxArrivals : (sid \in Expired) ~> (sid \notin sessions)
    /\ (session_lock = "daemon") ~> (session_lock # "daemon")

(***************************************************************************)
(* SpecResult: the results of the three workflows (TaskManager) and what   *)
(* the result callback of the agent core does with each of them            *)
(* (AgentCore._handle_message_result), also after AgentCore.stop has       *)
(* cleared is_running while the consumers still run.                       *)
(***************************************************************************)
\* Results handled in one behaviour.
MaxResults == 2

\* How the run of a workflow may end (task_manager.py).
\*   A: "plain" no command; "command" execute_command gave its response;
\*      "raise" an exception reached execute_task (line 77).
\*   B: "command" the short cut of lines 156-184; "no_session" update or
\*      create_session failed (line 235); "session"; "raise" as for A.
\*   C: "no_session_id" line 254; "session_missing" line 263; "null" line
\*      274; "raise" line 314; "text" a reply with content; "empty" a reply
\*      whose extracted content is the empty string (line 361).
WorkflowOutcomes(workflow_type) ==
    CASE workflow_type = "A" -> {"plain", "command", "raise"}
      [] workflow_type = "B" -> {"command", "no_session", "session", "raise"}
      [] workflow_type = "C" -> {"no_session_id", "session_missing", "null", "raise",
                                 "text", "empty"}

\* TaskManager._create_error_result lines 586-594: the workflow type of the
\* task, success false, an error text and no response.
CreateErrorResult(workflow_type) ==
    [workflow_type |-> workflow_type, success |-> FALSE, response |-> "-"]

\* The result execute_task returns for a task of the workflow (lines 64-80,
\* 119-138, 165-184, 226-240, 254-322).  response: "-" no such key,
\* "content" a response with content, "empty" one with empty content.
TaskResult(workflow_type, outcome) ==
    CASE outcome \in {"raise", "no_session_id", "session_missing", "null"} ->
            CreateErrorResult(workflow_type)
      [] outcome = "plain" -> [workflow_type |-> "A", success |-> TRUE, response |-> "-"]
      [] outcome = "command" -> [workflow_type |-> "A", success |-> TRUE, response |-> "content"]
      [] outcome = "no_session" -> [workflow_type |-> "B", success |-> FALSE, response |-> "-"]
      [] outcome = "session" -> [workflow_type |-> "B", success |-> TRUE, response |-> "-"]
      [] outcome = "text" -> [workflow_type |-> "C", success |-> TRUE, response |-> "content"]
      [] outcome = "empty" -> [workflow_type |-> "C", success |-> TRUE, response |-> "empty"]

\* What the callback does: responses sent, error replies among them,
\* assistant write-backs enqueued, results passed on for a model call.
NothingDone == [sent |-> 0, errors |-> 0, write_backs |-> 0, model_tasks |-> 0]

\* The callback with an error reply for every failed result.
HandleMessageResultAnyFailure(running, result) ==
    IF ~running THEN NothingDone
    ELSE IF ~result.success
         THEN [NothingDone EXCEPT !.sent = 1, !.errors = 1]
         ELSE NothingDone

\* AgentCore._handle_message_result lines 260-324, with
\* _add_ai_reply_to_context lines 339-366 and
\* RulesManager.handle_workflow_b_result lines 60-66.
HandleMessageResult(running, result) ==
    IF ~running THEN NothingDone
    ELSE CASE result.workflow_type = "A" ->
                 IF result.response # "-" THEN [NothingDone EXCEPT !.sent = 1] ELSE NothingDone
           [] result.workflow_type = "B" ->
                 IF result.success THEN [NothingDone EXCEPT !.model_tasks = 1] ELSE NothingDone
           [] result.workflow_type = "C" ->
                 IF result.success /\ result.response # "-"
                 THEN [NothingDone EXCEPT !.sent = 1,
                                          !.write_backs = IF result.response = "content" THEN 1 ELSE 0]
                 ELSE [NothingDone EXCEPT !.sent = 1, !.errors = 1]

\* A consumer has run a task of the workflow and calls the message callback
\* with the result (queue_manager.py lines 292-303, 316-327).
ResultArrives(workflow_type, outcome) ==
    LET result == TaskResult(workflow_type, outcome) IN
    /\ Len(handled) < MaxResults
    /\ handled' = Append(handled, [task |-> workflow_type, outcome |-> outcome,
                                   result |-> result, running |-> core_running,
                                   done |-> HandleMessageResult(core_running, result)])
    /\ UNCHANGED core_running
    /\ UNCHANGED <<qvars, tvars, cvars, pvars, promptvars, modelvars, cmdvars, turnvars>>
    /\ UNCHANGED <<sbvars, argvars, yvars>>

\* AgentCore.stop line 480: is_running is cleared before the queue manager
\* is shut down at line 489, so the consumers go on for a while.
CoreStop ==
    /\ core_running
    /\ core_running' = FALSE
    /\ UNCHANGED handled
    /\ UNCHANGED <<qvars, tvars, cvars, pvars, promptvars, modelvars, cmdvars, turnvars>>
    /\ UNCHANGED <<sbvars, argvars, yvars>>

ResultNext ==
    \/ \E workflow_type \in {"A", "B", "C"} :
          \E outcome \in WorkflowOutcomes(workflow_type) : ResultArrives(workflow_type, outcome)
    \/ CoreStop

InitResult ==
    /\ ResultParked /\ SbParked /\ ArgParked /\ YParked
    /\ EStart(<<"k">>) /\ MParked /\ CmdParked /\ TurnParked
    /\ QParked /\ TParked /\ CParked /\ PParked

SpecResult == InitResult /\ [][ResultNext]_vars

\* A handled result obeys the error mapping: a failed result of workflow C
\* brought one reply, the error reply, and no write-back; a failed result
\* of workflow A or B brought no reply.
ErrorMapped(h) ==
    ~h.result.success =>
        IF h.result.workflow_type = "C"
        THEN h.done.sent = 1 /\ h.done.errors = 1 /\ h.done.write_backs = 0
        ELSE h.done.sent = 0

\* C31 as stated: every failed workflow C brings exactly one error reply and
\* no assistant write-back, every failed workflow A or B brings no reply.
C31_ErrorReplyForWorkflowC ==
    \A i \in 1 .. Len(handled) : ErrorMapped(handled[i])

\* C31, amended: the same for the results that arrive while the agent core
\* is running; after AgentCore.stop has cleared is_running a failed workflow
\* C brings no reply at all.
C31_ErrorReplyWhileRunning ==
    \A i \in 1 .. Len(handled) :
        IF handled[i].running
        THEN ErrorMapped(handled[i])
        ELSE handled[i].done = NothingDone

\* A failed workflow C and a failed workflow B have both been handled by the
\* running core.
C31_Witness ==
    /\ \E i \in 1 .. Len(handled) :
          handled[i].running /\ handled[i].task = "C" /\ ~handled[i].result.success
    /\ \E i \in 1 .. Len(handled) :
          handled[i].running /\ handled[i].task = "B" /\ ~handled[i].result.success

(***************************************************************************)
(* SpecSession: one chat's context as the workflows A and B and the        *)
(* write-back of a reply extend it (ContextManager.update_context), the    *)
(* session workflow B builds from it (SessionManager.create_session with   *)
(* _filter_and_reorganize_context, plugins/session_manager.py, the module  *)
(* AgentCore imports) and what the tool loop does to that session.         *)
(* A text is a sequence of tokens.                                         *)
(***************************************************************************)
\* Operations on the chat in one behaviour, and tool results per session.
MaxSbSteps == 3
MaxSbToolResults == 1

\* The tokens of a content the adapter's log keeps (50 characters in
\* LMStudio_model.py line 287).
MaxLoggedLen == 1

\* The text in front of the current question (lines 209, 225, 250, 263),
\* and the one in front of the latest tool result (lines 286, 318).
AttentionPrefix == "attention"
ToolResultPrefix == "tool_result"

\* The configurations: system.context_manager (context_manager.py lines
\* 78-79, 212), system.session_manager (session_manager.py lines 38, 166)
\* and whether a tool manager was handed to the context manager (line 228).
SbConfigs ==
    [virtual_reply_enabled : BOOLEAN,
     virtual_reply_text : {DefaultVirtualReplyText, "custom"},
     session_virtual_reply_text : {DefaultVirtualReplyText, "custom"},
     default_tools_call : BOOLEAN,
     tool_manager : BOOLEAN]

\* What a user may write: a text, or one that itself starts with the
\* attention text.
UserTexts == {<<"x">>, <<AttentionPrefix, "x">>}

StartsWith(content, prefix) == content # <<>> /\ Head(content) = prefix

\* update_context lines 449-480 (the messages stay far below
\* max_user_messages_per_chat, so _trim_context_messages removes nothing).
UpdateContextMessages(messages, role, content, config) ==
    IF role = "assistant"
    THEN Append(messages, [role |-> "assistant", content |-> content])
    ELSE LET with_user == Append(messages, [role |-> "user", content |-> content]) IN
         IF config.virtual_reply_enabled
         THEN Append(with_user, [role |-> "assistant", content |-> <<config.virtual_reply_text>>])
         ELSE with_user

\* Lines 147-156: the index of the last user message (0: none) and whether
\* the messages hold a tool message.
LastUserMsgIndex(messages) ==
    LET users == {i \in 1 .. Len(messages) : messages[i].role = "user"} IN
    IF users = {} THEN 0 ELSE CHOOSE i \in users : \A j \in users : j <= i

HasToolMessages(messages) == \E i \in 1 .. Len(messages) : messages[i].role = "tool"

\* Lines 289-297 and 309-316: the nearest earlier message of the role whose
\* content starts with the prefix loses it (with replace for a user
\* message, with replace(.., 1) for a tool message).
RestoreNearest(filtered, role, prefix) ==
    LET found == {j \in 1 .. Len(filtered) :
                     filtered[j].role = role /\ StartsWith(filtered[j].content, prefix)} IN
    IF found = {} THEN filtered
    ELSE LET j == CHOOSE k \in found : \A l \in found : l <= k IN
         [filtered EXCEPT ![j].content =
             IF role = "user" THEN Remove(@, <<prefix>>) ELSE Tail(@)]

\* Lines 159-326: what one message of the context adds to filtered_messages.
\* A message of another role (the system message) adds nothing.
FilterMessage(filtered, message, i, last_user_msg_index, has_tool_messages, virtual_reply_text) ==
    CASE message.role = "assistant" ->
            IF message.content = <<virtual_reply_text>> /\ i = last_user_msg_index + 1
            THEN filtered
            ELSE Append(filtered, message)
      [] message.role = "user" ->
            IF i = last_user_msg_index /\ ~has_tool_messages
            THEN Append(filtered, [message EXCEPT !.content = <<AttentionPrefix>> \o @])
            ELSE Append(filtered, message)
      [] message.role = "tool" ->
            LET current_tool_index ==
                    Cardinality({j \in 1 .. Len(filtered) : filtered[j].role = "tool"})
                restored == IF current_tool_index = 0
                            THEN RestoreNearest(filtered, "user", AttentionPrefix)
                            ELSE RestoreNearest(filtered, "tool", ToolResultPrefix)
            IN Append(restored, [message EXCEPT !.content = <<ToolResultPrefix>> \o @])
      [] OTHER -> filtered

RECURSIVE FilterMessages(_, _, _, _)
FilterMessages(messages, i, filtered, virtual_reply_text) ==
    IF i > Len(messages) THEN filtered
    ELSE FilterMessages(messages, i + 1,
                        FilterMessage(filtered, messages[i], i, LastUserMsgIndex(messages),
                                      HasToolMessages(messages), virtual_reply_text),
                        virtual_reply_text)

\* The list the filtered messages are collected in is the context's own.
SameMessageList(items) == [shared |-> TRUE, items |-> items]

\* Line 144: filtered_messages is a new list, and each message put into it
\* is a new dict (lines 174, 211, 226, 229, 320, 326).
NewMessageList(items) == [shared |-> FALSE, items |-> items]

\* The tools array goes with every context that has one.
IncludeToolsIfPresent(tools_call, has_tools) == has_tools

\* Line 341: tools_call and "tools" in data_section.
IncludeTools(tools_call, has_tools) == tools_call /\ has_tools

\* _filter_and_reorganize_context lines 138-344.
FilterAndReorganizeContext(messages, tools_call, config) ==
    LET list == NewMessageList(FilterMessages(messages, 1, <<>>, config.session_virtual_reply_text)) IN
    [shared |-> list.shared, messages |-> list.items,
     tools |-> IncludeTools(tools_call, config.tool_manager)]

\* Workflow A (task_manager.py lines 93-106): the message goes into the
\* context.
SbWorkflowA(text) ==
    LET messages == UpdateContextMessages(sb_context, "user", text, sb_config) IN
    /\ sb_steps < MaxSbSteps
    /\ sb_steps' = sb_steps + 1
    /\ sb_context' = messages
    /\ sb_written' = messages
    /\ UNCHANGED <<sb_config, sb_tools_call, sb_session>>
    /\ UNCHANGED <<qvars, tvars, cvars, pvars, promptvars, modelvars, cmdvars, turnvars>>
    /\ UNCHANGED <<resultvars, argvars, yvars>>

\* Workflow B (task_manager.py lines 188-223): the message goes into the
\* context and create_session builds the session from the context that
\* update_context returned (session_manager.py lines 103-132).
SbWorkflowB(text) ==
    LET messages == UpdateContextMessages(sb_context, "user", text, sb_config)
        filtered_data == FilterAndReorganizeContext(messages, sb_tools_call, sb_config)
    IN
    /\ sb_steps < MaxSbSteps
    /\ sb_steps' = sb_steps + 1
    /\ sb_context' = IF filtered_data.shared THEN filtered_data.messages ELSE messages
    /\ sb_written' = messages
    /\ sb_session' = [exists |-> TRUE, shared |-> filtered_data.shared,
                      messages |-> filtered_data.messages, built |-> filtered_data.messages,
                      tools |-> filtered_data.tools, tools_call |-> sb_tools_call,
                      context |-> messages, updates |-> 0, sent |-> FALSE]
    /\ UNCHANGED <<sb_config, sb_tools_call>>
    /\ UNCHANGED <<qvars, tvars, cvars, pvars, promptvars, modelvars, cmdvars, turnvars>>
    /\ UNCHANGED <<resultvars, argvars, yvars>>

\* The reply of the model is written back (Agent_core.py lines 339-366,
\* update_context lines 449-454).
SbWriteBack ==
    LET messages == UpdateContextMessages(sb_context, "assistant", <<"reply">>, sb_config) IN
    /\ sb_steps < MaxSbSteps
    /\ sb_steps' = sb_steps + 1
    /\ sb_context' = messages
    /\ sb_written' = messages
    /\ UNCHANGED <<sb_config, sb_tools_call, sb_session>>
    /\ UNCHANGED <<qvars, tvars, cvars, pvars, promptvars, modelvars, cmdvars, turnvars>>
    /\ UNCHANGED <<resultvars, argvars, yvars>>

\* ContextManager.update_tools_call lines 618-655.
SbUpdateToolsCall(enable) ==
    /\ sb_steps < MaxSbSteps
    /\ sb_steps' = sb_steps + 1
    /\ sb_tools_call' = enable
    /\ UNCHANGED <<sb_config, sb_context, sb_session, sb_written>>
    /\ UNCHANGED <<qvars, tvars, cvars, pvars, promptvars, modelvars, cmdvars, turnvars>>
    /\ UNCHANGED <<resultvars, argvars, yvars>>

\* SessionManager.update_session lines 476-495: the tool loop appends a
\* tool result to the messages of the session.
SbUpdateSession ==
    LET tool_result == [role |-> "tool", content |-> <<"result">>] IN
    /\ sb_session.exists
    /\ sb_session.updates < MaxSbToolResults
    /\ sb_session' = [sb_session EXCEPT !.messages = Append(@, tool_result), !.updates = @ + 1]
    /\ sb_context' = IF sb_session.shared THEN Append(sb_context, tool_result) ELSE sb_context
    /\ UNCHANGED <<sb_config, sb_tools_call, sb_written, sb_steps>>
    /\ UNCHANGED <<qvars, tvars, cvars, pvars, promptvars, modelvars, cmdvars, turnvars>>
    /\ UNCHANGED <<resultvars, argvars, yvars>>

\* SessionManager.cleanup_session lines 501-507.
SbCleanupSession ==
    /\ sb_session.exists
    /\ sb_session' = [sb_session EXCEPT !.exists = FALSE]
    /\ UNCHANGED <<sb_config, sb_tools_call, sb_context, sb_written, sb_steps>>
    /\ UNCHANGED <<qvars, tvars, cvars, pvars, promptvars, modelvars, cmdvars, turnvars>>
    /\ UNCHANGED <<resultvars, argvars, yvars>>

\* Model._call_openai_api_async lines 284-288
\* (models/LMStudio_model.py): log_data is a shallow copy of the request, so
\* shortening the long contents for the log shortens them in the message
\* dicts of the session.
LogPreview(content) ==
    IF Len(content) > MaxLoggedLen THEN Append(SubSeq(content, 1, MaxLoggedLen), "...") ELSE content

\* The session goes to the model backend (task_manager.py lines 272, 447).
SbModelRequest ==
    LET shortened(messages) ==
            [i \in 1 .. Len(messages) |-> [messages[i] EXCEPT !.content = LogPreview(@)]]
    IN
    /\ sb_session.exists
    /\ ~sb_session.sent
    /\ sb_session' = [sb_session EXCEPT !.messages = shortened(@), !.sent = TRUE]
    /\ sb_context' = IF sb_session.shared THEN shortened(sb_context) ELSE sb_context
    /\ UNCHANGED <<sb_config, sb_tools_call, sb_written, sb_steps>>
    /\ UNCHANGED <<qvars, tvars, cvars, pvars, promptvars, modelvars, cmdvars, turnvars>>
    /\ UNCHANGED <<resultvars, argvars, yvars>>

SessionNext ==
    \/ \E text \in UserTexts : SbWorkflowA(text)
    \/ \E text \in UserTexts : SbWorkflowB(text)
    \/ SbWriteBack
    \/ \E enable \in BOOLEAN : SbUpdateToolsCall(enable)
    \/ SbModelRequest
    \/ SbUpdateSession
    \/ SbCleanupSession

InitSession ==
    /\ \E config \in SbConfigs : SbStart(config)
    /\ ResultParked /\ ArgParked /\ YParked
    /\ EStart(<<"k">>) /\ MParked /\ CmdParked /\ TurnParked
    /\ QParked /\ TParked /\ CParked /\ PParked

SpecSession == InitSession /\ [][SessionNext]_vars

\* C32: the data of a session holds the tools array exactly when the
\* context it was built from had tools_call set (and carried the array).
C32_ToolsIffToolsCall ==
    sb_session.built # <<>> =>
        (sb_session.tools <=> (sb_session.tools_call /\ sb_config.tool_manager))

\* A session built without the tools array from a context that carries one,
\* because tools_call was off.
C32_Witness ==
    /\ sb_session.built # <<>>
    /\ sb_config.tool_manager
    /\ ~sb_session.tools_call
    /\ ~sb_session.tools

\* The user messages of a transcript that start with the attention text.
PrefixedUsers(messages) ==
    {i \in 1 .. Len(messages) :
        messages[i].role = "user" /\ StartsWith(messages[i].content, AttentionPrefix)}

\* C33: in the transcript a session is built with, at most one user message
\* starts with the attention text, and it is the last user message, with
\* no tool message behind it; every earlier user message is without it.
C33_OnePrefixedUser ==
    sb_session.built # <<>> =>
        /\ Cardinality(PrefixedUsers(sb_session.built)) <= 1
        /\ \A i \in PrefixedUsers(sb_session.built) :
              /\ i = LastUserMsgIndex(sb_session.built)
              /\ \A j \in i + 1 .. Len(sb_session.built) : sb_session.built[j].role # "tool"

Placeholders(messages, text) ==
    {i \in 1 .. Len(messages) :
        messages[i].role = "assistant" /\ messages[i].content = <<text>>}

\* C40: with virtual replies enabled, the transcript of a session built by
\* workflow B ends with the user message that triggered it; the placeholder
\* behind that message is left out, the earlier placeholders are kept.
C40_TranscriptEndsWithTrigger ==
    (sb_session.built # <<>> /\ sb_config.virtual_reply_enabled) =>
        LET built == sb_session.built
            context == sb_session.context
            text == sb_config.virtual_reply_text
        IN /\ built[Len(built)].role = "user"
           /\ built[Len(built)].content = <<AttentionPrefix>> \o context[Len(context) - 1].content
           /\ Cardinality(Placeholders(built, text)) = Cardinality(Placeholders(context, text)) - 1

(***************************************************************************)
(* SpecArgs: the arguments of a tool call on their way from the model's    *)
(* response to the handler: TaskManager._execute_tool_call, then the tool  *)
(* manager (ToolManager.execute_tool_with_timeout), then the handler, which *)
(* is called with params as its keyword arguments.                         *)
(* Arguments are functions from names to where the value came from.        *)
(***************************************************************************)
\* Tool calls in one behaviour.
MaxArgCalls == 1

\* The names an argument may have, and who supplied a value: the model in
\* its JSON text, or the core from the task.
ArgNames == {"query", "chat_id", "session_id"}
Injected == {"chat_id", "session_id"}
ArgDicts == UNION {[names -> {"model"}] : names \in SUBSET ArgNames}
NoArguments == [n \in {} |-> "model"]

\* d[name] = value on a copy of d.
WithArg(d, name, value) ==
    [n \in DOMAIN d \cup {name} |-> IF n = name THEN value ELSE d[n]]

\* task_manager.py lines 512-519: json.loads of the arguments text, and the
\* empty dict for a text that is no JSON.
ParseArguments(well_formed, model_arguments) ==
    IF well_formed THEN model_arguments ELSE NoArguments

\* task_manager.py lines 521-523: chat_id is put into the arguments unless
\* the model supplied one (the chat id of a task is never empty).
ArgumentsWithChatId(arguments) ==
    IF "chat_id" \notin DOMAIN arguments THEN WithArg(arguments, "chat_id", "core") ELSE arguments

\* tool_manager.py lines 432-441: params for a handler whose signature has
\* the parameter names param_names.
PrepareParams(arguments, param_names) ==
    LET with_chat == IF "chat_id" \in param_names
                     THEN WithArg(arguments, "chat_id", "core") ELSE arguments
    IN IF "session_id" \in param_names THEN WithArg(with_chat, "session_id", "core") ELSE with_chat

\* The call of the handler with params as keywords, line 446: Python binds the call when every keyword is
\* a parameter of the signature or the signature takes any keyword, and raises
\* TypeError otherwise (the text of line 459 is returned).
Binds(params, param_names, var_keyword) ==
    var_keyword \/ DOMAIN params \subseteq param_names

NoCall == [reached |-> FALSE, params |-> NoArguments, bound |-> FALSE]

\* _execute_tool_call lines 502-584 for a registered and enabled tool.
\* Without execute_tool line 526 raises AttributeError and the tool manager
\* is not entered; with it the call reaches lines 427-459.
ExecuteToolCallArgs(has_method, well_formed, model_arguments, param_names, var_keyword) ==
    LET parsed == ParseArguments(well_formed, model_arguments)
        arguments == ArgumentsWithChatId(parsed)
        params == PrepareParams(arguments, param_names)
    IN [parsed |-> parsed, param_names |-> param_names, var_keyword |-> var_keyword,
        call |-> IF has_method
                 THEN [reached |-> TRUE, params |-> params,
                       bound |-> Binds(params, param_names, var_keyword)]
                 ELSE NoCall]

ArgToolCall(well_formed, model_arguments, param_names, var_keyword) ==
    /\ Len(arg_calls) < MaxArgCalls
    /\ arg_calls' = Append(arg_calls,
                           ExecuteToolCallArgs(arg_has_execute_tool, well_formed, model_arguments,
                                            param_names, var_keyword))
    /\ UNCHANGED arg_has_execute_tool
    /\ UNCHANGED <<qvars, tvars, cvars, pvars, promptvars, modelvars, cmdvars, turnvars>>
    /\ UNCHANGED <<resultvars, sbvars, yvars>>

ArgsNext ==
    \E well_formed \in BOOLEAN, model_arguments \in ArgDicts,
       param_names \in SUBSET ArgNames, var_keyword \in BOOLEAN :
        ArgToolCall(well_formed, model_arguments, param_names, var_keyword)

InitArgs ==
    /\ \E has_method \in BOOLEAN : ArgStart(has_method)
    /\ ResultParked /\ SbParked /\ YParked
    /\ EStart(<<"k">>) /\ MParked /\ CmdParked /\ TurnParked
    /\ QParked /\ TParked /\ CParked /\ PParked

SpecArgs == InitArgs /\ [][ArgsNext]_vars

ClearReturns == ClearUnlinked \/ (ClearBegin /\ file.kind = "absent")

\* C37: when clear(chat) returns, the chat has no cache entry and no file,
\* so that the next get(chat) creates the default context anew.
C37_ClearLeavesNothing ==
    [][ClearReturns => ~cache_status'.cached /\ file'.kind = "absent"]_vars

(***************************************************************************)
(* SpecWrite: update_model and the other users of one chat's file while    *)
(* writes of the file can fail.  The calls follow one another; what        *)
(* happens when they overlap is the matter of SpecModel.                   *)
(***************************************************************************)
\* Calls in one behaviour.
MaxWriteCalls == 2

\* How a write of the file can end: it is written; open(file_path, 'w') or
\* the mkdir before it raises and the file stays as it was; json.dump
\* raises after the file was opened, which leaves a file that does not
\* parse.
WriteOutcomes == {"ok", "open_failed", "dump_failed"}

\* _save_context_to_file lines 151-184: without a cache entry nothing is
\* done; a write that raises is logged by the handler of line 183 and the
\* call returns as the successful one does, with is_dirty left set.
SaveContextToFile(cache, f, outcome) ==
    IF ~cache.cached THEN [cache |-> cache, file |-> f]
    ELSE IF outcome = "ok"
    THEN [cache |-> ClearDirty(cache),
          file |-> [kind |-> "json", model |-> cache.model, n |-> cache.n]]
    ELSE IF outcome = "open_failed" THEN [cache |-> cache, file |-> f]
    ELSE [cache |-> cache, file |-> [kind |-> "partial", model |-> "-", n |-> 0]]

\* _save_context_if_dirty lines 186-192.
SaveContextIfDirty(cache, f, outcome) ==
    IF cache.cached /\ cache.is_dirty THEN SaveContextToFile(cache, f, outcome)
    ELSE [cache |-> cache, file |-> f]

\* update_model lines 604-615: the result is the success one unless an
\* exception reached the handler of update_model itself, and none of
\* _save_context_to_file does.
UpdateModelResult(write_failed) ==
    [op |-> "update_model", success |-> TRUE, write_failed |-> write_failed]

\* update_model lines 581-607 (update_tools_call, update_custom_prompt,
\* delete_custom_prompt and update_tools_definition are built the same
\* way): save if dirty, drop the cache entry, load the file or take the
\* default context, edit, cache as dirty, save.
WriteUpdateModel(m, first_write, second_write) ==
    LET saved == SaveContextIfDirty(write_cache, write_file, first_write)
        edited == SetModel(ModelLoadOrDefault(saved.file), m)
        cached == [cached |-> TRUE, is_dirty |-> TRUE,
                   model |-> edited.model, n |-> edited.n]
        written == SaveContextToFile(cached, saved.file, second_write)
        first_failed == write_cache.cached /\ write_cache.is_dirty
                        /\ first_write # "ok"
    IN
    /\ write_calls < MaxWriteCalls
    /\ write_calls' = write_calls + 1
    /\ write_cache' = written.cache
    /\ write_file' = written.file
    /\ write_last' = UpdateModelResult(first_failed \/ second_write # "ok")
    /\ UNCHANGED <<qvars, tvars, cvars, pvars, promptvars, modelvars, cmdvars, turnvars>>
    /\ UNCHANGED <<resultvars, sbvars, argvars, monvars, loadvars>>

\* get_context lines 267-316: the cached context, else the context of the
\* file, else a default context, which is cached as dirty.
WriteGetContext ==
    LET context == ModelLoadOrDefault(write_file) IN
    /\ write_calls < MaxWriteCalls
    /\ write_calls' = write_calls + 1
    /\ write_cache' = IF write_cache.cached THEN write_cache
                      ELSE [cached |-> TRUE, is_dirty |-> write_file.kind # "json",
                            model |-> context.model, n |-> context.n]
    /\ write_last' = [op |-> "get_context", success |-> TRUE, write_failed |-> FALSE]
    /\ UNCHANGED write_file
    /\ UNCHANGED <<qvars, tvars, cvars, pvars, promptvars, modelvars, cmdvars, turnvars>>
    /\ UNCHANGED <<resultvars, sbvars, argvars, monvars, loadvars>>

\* update_context lines 437-494 on a cached context: a message is appended
\* and the entry marked dirty.
WriteUpdateContext ==
    /\ write_cache.cached
    /\ write_cache.n < MaxStoredMessages
    /\ write_cache' = [write_cache EXCEPT !.n = @ + 1, !.is_dirty = TRUE]
    /\ UNCHANGED <<write_file, write_last, write_calls>>
    /\ UNCHANGED <<qvars, tvars, cvars, pvars, promptvars, modelvars, cmdvars, turnvars>>
    /\ UNCHANGED <<resultvars, sbvars, argvars, monvars, loadvars>>

\* _cleanup_daemon lines 110-113 for the chat found inactive: saved if
\* dirty, then removed from the cache whatever came of the save.
WriteDaemonUnload(write) ==
    /\ write_cache.cached
    /\ write_file' = SaveContextIfDirty(write_cache, write_file, write).file
    /\ write_cache' = NoModelContext
    /\ UNCHANGED <<write_last, write_calls>>
    /\ UNCHANGED <<qvars, tvars, cvars, pvars, promptvars, modelvars, cmdvars, turnvars>>
    /\ UNCHANGED <<resultvars, sbvars, argvars, monvars, loadvars>>

WriteNext ==
    \/ \E m \in ModelNames : \E first_write, second_write \in WriteOutcomes :
          WriteUpdateModel(m, first_write, second_write)
    \/ WriteGetContext
    \/ WriteUpdateContext
    \/ \E write \in WriteOutcomes : WriteDaemonUnload(write)

InitWrite ==
    /\ \E f \in StoredContexts \cup {NoModelFile} : WriteStart(NoModelContext, f)
    /\ MonParked /\ LoadParked
    /\ ResultParked /\ SbParked /\ ArgParked
    /\ EStart(<<"k">>) /\ MParked /\ CmdParked /\ TurnParked
    /\ QParked /\ TParked /\ CParked /\ PParked

SpecWrite == InitWrite /\ [][WriteNext]_vars

\* C36: a mutator during which a write of the chat's file failed returns a
\* result that reports failure (and the store goes on serving calls, the
\* mutator having returned).
C36_WriteFailureReported ==
    write_last.op = "update_model" /\ write_last.write_failed
        => ~write_last.success

(***************************************************************************)
(* SpecLoad: the message queue and the model queue of one chat under more  *)
(* traffic than the queues hold, in rules mode "wait".  Both queues are    *)
(* asyncio.Queue objects of the same maxsize (1000 in the source), scaled  *)
(* here to LoadQueueSize; put() on a full queue suspends the caller until  *)
(* a get() of the queue's consumer makes room.                             *)
(***************************************************************************)
LoadQueueSize == 1
MaxLoadArrivals == 4

LoadFull(queue) == Len(queue) >= LoadQueueSize

\* enqueue_message lines 91-124 called by the frontend for a message of
\* the chat: the task is put, or the call suspends in put().
LoadArrive(is_respond) ==
    /\ load_arrivals < MaxLoadArrivals
    /\ load_arrivals' = load_arrivals + 1
    /\ IF LoadFull(load_message_queue)
       THEN /\ load_putters' =
                  Append(load_putters, DetermineWorkflowType(is_respond))
            /\ UNCHANGED load_message_queue
       ELSE /\ load_message_queue' =
                  Append(load_message_queue, DetermineWorkflowType(is_respond))
            /\ UNCHANGED load_putters
    /\ UNCHANGED <<load_llm_queue, load_mcons, load_lcons>>
    /\ UNCHANGED <<qvars, tvars, cvars, pvars, promptvars, modelvars, cmdvars, turnvars>>
    /\ UNCHANGED <<resultvars, sbvars, argvars, writevars, monvars>>

\* The enqueue_message of the frontend that has waited longest goes on
\* (lines 117-121).
LoadPutterResume ==
    /\ load_putters # <<>>
    /\ ~LoadFull(load_message_queue)
    /\ load_putters' = Tail(load_putters)
    /\ load_message_queue' = Append(load_message_queue, Head(load_putters))
    /\ UNCHANGED <<load_llm_queue, load_mcons, load_lcons, load_arrivals>>
    /\ UNCHANGED <<qvars, tvars, cvars, pvars, promptvars, modelvars, cmdvars, turnvars>>
    /\ UNCHANGED <<resultvars, sbvars, argvars, writevars, monvars>>

\* _message_consumer_loop lines 224-238: the consumer takes the oldest
\* task of the message queue.
LoadMsgGet ==
    /\ load_mcons.pc = "get"
    /\ load_message_queue # <<>>
    /\ load_mcons' = [pc |-> "exec", cur |-> Head(load_message_queue)]
    /\ load_message_queue' = Tail(load_message_queue)
    /\ UNCHANGED <<load_llm_queue, load_lcons, load_putters, load_arrivals>>
    /\ UNCHANGED <<qvars, tvars, cvars, pvars, promptvars, modelvars, cmdvars, turnvars>>
    /\ UNCHANGED <<resultvars, sbvars, argvars, writevars, monvars>>

\* _process_message_task lines 286-308: a workflow A ends with its reply;
\* the result of a workflow B goes through the message callback to
\* _handle_wait_mode (rules_manager.py lines 104-127), which awaits
\* enqueue_llm inside the consumer's own task.
LoadMsgProcess ==
    /\ load_mcons.pc = "exec"
    /\ IF load_mcons.cur = "A"
       THEN /\ load_mcons' = [pc |-> "get", cur |-> "-"]
            /\ UNCHANGED load_llm_queue
       ELSE IF LoadFull(load_llm_queue)
       THEN /\ load_mcons' = [load_mcons EXCEPT !.pc = "put"]
            /\ UNCHANGED load_llm_queue
       ELSE /\ load_llm_queue' = Append(load_llm_queue, "C")
            /\ load_mcons' = [pc |-> "get", cur |-> "-"]
    /\ UNCHANGED <<load_message_queue, load_lcons, load_putters, load_arrivals>>
    /\ UNCHANGED <<qvars, tvars, cvars, pvars, promptvars, modelvars, cmdvars, turnvars>>
    /\ UNCHANGED <<resultvars, sbvars, argvars, writevars, monvars>>

\* The put() of enqueue_llm (lines 162-166) goes on once the model queue
\* has room.
LoadMsgPutResume ==
    /\ load_mcons.pc = "put"
    /\ ~LoadFull(load_llm_queue)
    /\ load_llm_queue' = Append(load_llm_queue, "C")
    /\ load_mcons' = [pc |-> "get", cur |-> "-"]
    /\ UNCHANGED <<load_message_queue, load_lcons, load_putters, load_arrivals>>
    /\ UNCHANGED <<qvars, tvars, cvars, pvars, promptvars, modelvars, cmdvars, turnvars>>
    /\ UNCHANGED <<resultvars, sbvars, argvars, writevars, monvars>>

\* _llm_consumer_loop lines 259-273: the consumer takes the oldest task of
\* the model queue and workflow C runs.
LoadLlmGet ==
    /\ load_lcons = "get"
    /\ load_llm_queue # <<>>
    /\ load_llm_queue' = Tail(load_llm_queue)
    /\ load_lcons' = "model"
    /\ UNCHANGED <<load_message_queue, load_mcons, load_putters, load_arrivals>>
    /\ UNCHANGED <<qvars, tvars, cvars, pvars, promptvars, modelvars, cmdvars, turnvars>>
    /\ UNCHANGED <<resultvars, sbvars, argvars, writevars, monvars>>

\* Workflow C has returned.  On success the message callback awaits
\* _add_ai_reply_to_context (Agent_core.py lines 339-371), whose
\* enqueue_message puts the write-back, a task of workflow A, on the chat's
\* message queue inside the consumer's own task; on failure nothing is
\* enqueued.
LoadLlmDone(success) ==
    /\ load_lcons = "model"
    /\ IF ~success
       THEN /\ load_lcons' = "get"
            /\ UNCHANGED load_message_queue
       ELSE IF LoadFull(load_message_queue)
       THEN /\ load_lcons' = "put"
            /\ UNCHANGED load_message_queue
       ELSE /\ load_message_queue' =
                  Append(load_message_queue, DetermineWorkflowType(FALSE))
            /\ load_lcons' = "get"
    /\ UNCHANGED <<load_llm_queue, load_mcons, load_putters, load_arrivals>>
    /\ UNCHANGED <<qvars, tvars, cvars, pvars, promptvars, modelvars, cmdvars, turnvars>>
    /\ UNCHANGED <<resultvars, sbvars, argvars, writevars, monvars>>

\* The put() of the write-back (queue_manager.py lines 117-121) goes on
\* once the message queue has room.
LoadLlmPutResume ==
    /\ load_lcons = "put"
    /\ ~LoadFull(load_message_queue)
    /\ load_message_queue' =
          Append(load_message_queue, DetermineWorkflowType(FALSE))
    /\ load_lcons' = "get"
    /\ UNCHANGED <<load_llm_queue, load_mcons, load_putters, load_arrivals>>
    /\ UNCHANGED <<qvars, tvars, cvars, pvars, promptvars, modelvars, cmdvars, turnvars>>
    /\ UNCHANGED <<resultvars, sbvars, argvars, writevars, monvars>>

LoadNext ==
    \/ \E is_respond \in BOOLEAN : LoadArrive(is_respond)
    \/ LoadPutterResume
    \/ LoadMsgGet
    \/ LoadMsgProcess
    \/ LoadMsgPutResume
    \/ LoadLlmGet
    \/ \E success \in BOOLEAN : LoadLlmDone(success)
    \/ LoadLlmPutResume

InitLoad ==
    /\ LoadParked
    /\ WriteParked /\ MonParked
    /\ ResultParked /\ SbParked /\ ArgParked
    /\ EStart(<<"k">>) /\ MParked /\ CmdParked /\ TurnParked
    /\ QParked /\ TParked /\ CParked /\ PParked

SpecLoad == InitLoad /\ [][LoadNext]_vars

\* C38: the two consumers of a chat are never both suspended, the message
\* consumer in the put of enqueue_llm on the full model queue and the model
\* consumer in the put of the write-back on the full message queue.
C38_NoCircularWait ==
    ~(/\ load_mcons.pc = "put" /\ LoadFull(load_llm_queue)
      /\ load_lcons = "put" /\ LoadFull(load_message_queue))

(***************************************************************************)
(* SpecMonitor: the health monitor tasks of the client adapters while the  *)
(* port manager runs (the model adapters are handled by code of the same   *)
(* shape, lines 278-297, 329-357 and 381-401).                             *)
(***************************************************************************)
\* connection.max_reconnect_attempts (3 by default) and the losses of an
\* adapter's link in one behaviour.
MaxReconnectAttempts == 2
MaxDisconnects == 2

\* The monitor tasks of adapter a that have not ended: asleep between two
\* polls, or inside _reconnect_client_async.
LiveMonitors(a) ==
    {t \in MonitorIds : mon_tasks[a][t].pc \in {"sleep", "reconnect"}}

\* The task numbers not used so far for adapter a.
FreeMonitors(a) == {t \in MonitorIds : mon_tasks[a][t].pc = "none"}

\* _start_client_connection_async lines 268-273: asyncio.create_task makes
\* a new monitor task, which starts with the loop test and its first sleep.
CreateMonitor(a, tasks) ==
    LET t == CHOOSE t \in FreeMonitors(a) : \A u \in FreeMonitors(a) : t <= u
    IN [tasks EXCEPT ![t] = [pc |-> "sleep", attempt |-> 0]]

\* _start_client_connection_async lines 254-276: when module.start returns,
\* is_connected is set and a monitor task is created; when it raises, the
\* error is logged and nothing else is done.
StartClientConnection(a, tasks, ok) ==
    IF ok THEN CreateMonitor(a, tasks) ELSE tasks

\* PortManager.start lines 236-241: adapter a is started.
MonStart(a, ok) ==
    /\ FreeMonitors(a) = MonitorIds
    /\ ~mon_connected[a]
    /\ mon_link' = [mon_link EXCEPT ![a] = ok]
    /\ mon_connected' = [mon_connected EXCEPT ![a] = ok]
    /\ mon_tasks' = [mon_tasks EXCEPT ![a] = StartClientConnection(a, @, ok)]
    /\ UNCHANGED mon_disconnects
    /\ UNCHANGED <<qvars, tvars, cvars, pvars, promptvars, modelvars, cmdvars, turnvars>>
    /\ UNCHANGED <<resultvars, sbvars, argvars, writevars, loadvars>>

\* Adapter a loses its link (the remote end closes the connection).
MonLinkLost(a) ==
    /\ mon_link[a]
    /\ mon_disconnects[a] < MaxDisconnects
    /\ mon_disconnects' = [mon_disconnects EXCEPT ![a] = @ + 1]
    /\ mon_link' = [mon_link EXCEPT ![a] = FALSE]
    /\ UNCHANGED <<mon_connected, mon_tasks>>
    /\ UNCHANGED <<qvars, tvars, cvars, pvars, promptvars, modelvars, cmdvars, turnvars>>
    /\ UNCHANGED <<resultvars, sbvars, argvars, writevars, loadvars>>

\* The loop test of a monitor (line 301, with is_running true): the task
\* sleeps again while the connection counts as connected and ends when it
\* does not.
MonitorLoopTest(connected) ==
    IF connected THEN [pc |-> "sleep", attempt |-> 0]
    ELSE [pc |-> "done", attempt |-> 0]

\* _monitor_client_connection_async lines 303-322: monitor t of adapter a
\* wakes and asks the adapter.  A link found lost while the connection
\* counts as connected is recorded and the reconnection starts in the same
\* task.
MonitorPoll(a, t) ==
    /\ mon_tasks[a][t].pc = "sleep"
    /\ IF ~mon_link[a] /\ mon_connected[a]
       THEN /\ mon_connected' = [mon_connected EXCEPT ![a] = FALSE]
            /\ mon_tasks' = [mon_tasks EXCEPT ![a][t] =
                                [pc |-> "reconnect", attempt |-> 1]]
       ELSE /\ mon_tasks' = [mon_tasks EXCEPT ![a][t] =
                                MonitorLoopTest(mon_connected[a])]
            /\ UNCHANGED mon_connected
    /\ UNCHANGED <<mon_link, mon_disconnects>>
    /\ UNCHANGED <<qvars, tvars, cvars, pvars, promptvars, modelvars, cmdvars, turnvars>>
    /\ UNCHANGED <<resultvars, sbvars, argvars, writevars, loadvars>>

\* _reconnect_client_async lines 359-379, one attempt made by monitor t of
\* adapter a: _start_client_connection_async is called.  When the
\* connection counts as connected afterwards the monitor returns to its
\* loop; otherwise it sleeps reconnect_interval and tries again, and after
\* the last attempt it returns to the loop test, which ends it.
MonitorReconnect(a, t, ok) ==
    LET connected == mon_connected[a] \/ ok
        started == StartClientConnection(a, mon_tasks[a], ok)
    IN
    /\ mon_tasks[a][t].pc = "reconnect"
    /\ ok => FreeMonitors(a) # {}
    /\ mon_link' = [mon_link EXCEPT ![a] = @ \/ ok]
    /\ mon_connected' = [mon_connected EXCEPT ![a] = connected]
    /\ mon_tasks' = [mon_tasks EXCEPT ![a] = [started EXCEPT ![t] =
          IF connected \/ mon_tasks[a][t].attempt >= MaxReconnectAttempts
          THEN MonitorLoopTest(connected)
          ELSE [pc |-> "reconnect", attempt |-> mon_tasks[a][t].attempt + 1]]]
    /\ UNCHANGED mon_disconnects
    /\ UNCHANGED <<qvars, tvars, cvars, pvars, promptvars, modelvars, cmdvars, turnvars>>
    /\ UNCHANGED <<resultvars, sbvars, argvars, writevars, loadvars>>

MonitorNext ==
    \/ \E a \in Adapters, ok \in BOOLEAN : MonStart(a, ok)
    \/ \E a \in Adapters : MonLinkLost(a)
    \/ \E a \in Adapters, t \in MonitorIds : MonitorPoll(a, t)
    \/ \E a \in Adapters, t \in MonitorIds, ok \in BOOLEAN :
          MonitorReconnect(a, t, ok)

InitMonitor ==
    /\ MonParked
    /\ WriteParked /\ LoadParked
    /\ ResultParked /\ SbParked /\ ArgParked
    /\ EStart(<<"k">>) /\ MParked /\ CmdParked /\ TurnParked
    /\ QParked /\ TParked /\ CParked /\ PParked

SpecMonitor == InitMonitor /\ [][MonitorNext]_vars

\* C39: every adapter that counts as connected has exactly one monitor
\* task alive, also after it was disconnected and reconnected.
C39_OneMonitorPerAdapter ==
    \A a \in Adapters : mon_connected[a] => Cardinality(LiveMonitors(a)) = 1

====
